---- MODULE Spec2Model ----
(***************************************************************************)
(* Markdown Link Indexer: link extraction (parser.ts), broken-link         *)
(* detection, replacement-candidate search, the repair flow, relative     *)
(* paths and link rewriting, the Registry, the file watcher and the        *)
(* rename handler of extension.ts.                                         *)
(*                                                                         *)
(* Strings are sequences of one-character strings, so that startsWith,     *)
(* the regular expressions, decodeURIComponent and the path functions of   *)
(* the source are computed on characters as the code computes them.        *)
(* Paths are POSIX paths (the tests of the repository use /home/user/docs).*)
(***************************************************************************)
EXTENDS Integers, Sequences, FiniteSets, Bags, TLC

VARIABLES
  mode,        \* which entry point this behaviour exercises
  pieces,      \* the document as written: its link/image occurrences, in order
  text,        \* the document content handed to extractMarkdownLinks
  notebook,    \* the content handed to extractLinksFromNotebook
  baseDir,     \* the directory of the document
  out,         \* what the call produced: [done, threw, links]
  fs,          \* the file system as fs.statSync sees it: path -> entry
  probe,       \* what a call isLinkBroken(link) produced: [done, link, threw, v]
  docs,        \* the documents of the workspace: path -> content
  linkIndex,   \* Registry.linkIndex: the entries [key, links], in key order
  diskIndex,   \* .vscode/link-index.json: [exists, index]
  broken,      \* what a call findBrokenLinks(index) produced: [done, records]
  ws,          \* the files of the workspace that findFiles searches
  search,      \* what a call findSmartReplacementCandidates produced
  fileText,    \* the documents on disk as the repair reads and writes them
  fix,         \* the run of fixBrokenLinks: its position and its locals
  fixLog,      \* what the run did for each broken path, in order
  rel,         \* what a call calculateRelativePath produced: [done, from, to, v]
  upd,         \* what a call updateMarkdownLinks produced
  lastOp,      \* for each document, the entry its last Registry operation left
  timers,      \* the timeouts scheduled with setTimeout and not yet run
  debounceTimeouts, \* the Map of the watcher: path -> its timeout
  inflight,    \* the calls of handleFileUpdate that await parseFile, a bag
  hist,        \* for each path, what the watcher has seen and done for it
  ren,         \* what the rename handler did: [stage, oldPath, newPath, before]
  scan,        \* the run of scanWorkspace: its position and its locals
  nbu,         \* what a call updateNotebookLinks produced
  pendingRepairs \* the repairs a run of fixBrokenLinks has still to write

extractVars == <<mode, pieces, text, notebook, baseDir, out>>
probeVars == <<fs, probe>>
detectVars == <<docs, linkIndex, diskIndex, broken>>
repairVars == <<ws, search, fileText, fix, fixLog>>
pathVars == <<rel, upd>>
eventVars == <<lastOp, timers, debounceTimeouts, inflight, hist, ren>>
lateVars == <<scan, nbu, pendingRepairs>>
vars == <<extractVars, probeVars, detectVars, repairVars, pathVars, eventVars, lateVars>>

-----------------------------------------------------------------------------
(* Bounds of the model. *)

\* link/image occurrences written in one markdown document
MaxLinks == 2

-----------------------------------------------------------------------------
(* String helpers (JavaScript String methods). *)

\* String.prototype.startsWith
StartsWith(s, p) ==
  /\ Len(s) >= Len(p)
  /\ SubSeq(s, 1, Len(p)) = p

\* String.prototype.endsWith
EndsWith(s, p) ==
  /\ Len(s) >= Len(p)
  /\ SubSeq(s, Len(s) - Len(p) + 1, Len(s)) = p

\* the substring of s from position i (1-based) to its end
From(s, i) == SubSeq(s, i, Len(s))

\* String.prototype.includes
Includes(s, p) ==
  \E i \in 1..(Len(s) - Len(p) + 1) : SubSeq(s, i, i + Len(p) - 1) = p

\* the first position >= i of s holding a character of set cs, or 0
RECURSIVE IndexOfAny(_, _, _)
IndexOfAny(s, cs, i) ==
  IF i > Len(s) THEN 0
  ELSE IF s[i] \in cs THEN i
  ELSE IndexOfAny(s, cs, i + 1)

\* Array.prototype.join: the strings of a sequence joined with separator sep
RECURSIVE Join(_, _)
Join(ss, sep) ==
  IF Len(ss) = 0 THEN <<>>
  ELSE IF Len(ss) = 1 THEN ss[1]
  ELSE ss[1] \o sep \o Join(Tail(ss), sep)

\* String.prototype.split('/')
RECURSIVE SplitSlash(_)
SplitSlash(s) ==
  LET i == IndexOfAny(s, {"/"}, 1) IN
  IF i = 0 THEN <<s>>
  ELSE <<SubSeq(s, 1, i - 1)>> \o SplitSlash(From(s, i + 1))

\* concatenation of a sequence of sequences
RECURSIVE Flatten(_)
Flatten(ss) == IF Len(ss) = 0 THEN <<>> ELSE ss[1] \o Flatten(Tail(ss))

-----------------------------------------------------------------------------
(* Node's path module, POSIX flavour. *)

\* path.isAbsolute
IsAbsolute(p) == Len(p) > 0 /\ p[1] = "/"

\* normalizeString of path.posix: drops empty and "." segments, lets ".."
\* remove the segment before it; above the root of an absolute path ".."
\* is dropped, in a relative path it is kept
NormalizeSeg(acc, h, abs) ==
  IF h = <<>> \/ h = <<".">> THEN acc
  ELSE IF h = <<".", ".">> THEN
    IF Len(acc) > 0 /\ acc[Len(acc)] # <<".", ".">> THEN SubSeq(acc, 1, Len(acc) - 1)
    ELSE IF abs THEN acc
    ELSE Append(acc, h)
  ELSE Append(acc, h)

RECURSIVE NormalizeSegs(_, _, _)
NormalizeSegs(segs, acc, abs) ==
  IF Len(segs) = 0 THEN acc
  ELSE NormalizeSegs(Tail(segs), NormalizeSeg(acc, Head(segs), abs), abs)

\* path.resolve(from, to) for an absolute `from`: an absolute `to` wins,
\* otherwise `to` is appended to `from`; the result is normalized, without
\* a trailing slash
PathResolve(from, to) ==
  LET joined == IF IsAbsolute(to) THEN to
                ELSE IF to = <<>> THEN from
                ELSE from \o <<"/">> \o to
  IN <<"/">> \o Join(NormalizeSegs(SplitSlash(joined), <<>>, TRUE), <<"/">>)

-----------------------------------------------------------------------------
(* decodeURIComponent. *)

HexDigits == {"0","1","2","3","4","5","6","7","8","9",
              "A","B","C","D","E","F","a","b","c","d","e","f"}

HexVal(c) ==
  CASE c = "0" -> 0 [] c = "1" -> 1 [] c = "2" -> 2 [] c = "3" -> 3
    [] c = "4" -> 4 [] c = "5" -> 5 [] c = "6" -> 6 [] c = "7" -> 7
    [] c = "8" -> 8 [] c = "9" -> 9
    [] c \in {"A", "a"} -> 10 [] c \in {"B", "b"} -> 11
    [] c \in {"C", "c"} -> 12 [] c \in {"D", "d"} -> 13
    [] c \in {"E", "e"} -> 14 [] c \in {"F", "f"} -> 15

\* is s[i..i+2] an escape %XX
IsEscape(s, i) ==
  /\ i + 2 <= Len(s)
  /\ s[i] = "%"
  /\ s[i + 1] \in HexDigits
  /\ s[i + 2] \in HexDigits

EscapeByte(s, i) == 16 * HexVal(s[i + 1]) + HexVal(s[i + 2])

\* the character of a decoded UTF-8 byte sequence; the documents drawn
\* below use these characters only
Utf8Char(bytes) ==
  CASE bytes = <<32>> -> " "
    [] bytes = <<35>> -> "#"
    [] bytes = <<37>> -> "%"
    [] bytes = <<46>> -> "."
    [] bytes = <<47>> -> "/"
    [] bytes = <<60>> -> "<"
    [] bytes = <<62>> -> ">"
    [] bytes = <<97>> -> "a"
    [] bytes = <<195, 169>> -> "é"
    [] OTHER -> "?"

\* the number of continuation bytes a UTF-8 lead byte announces, -1 for a
\* byte that cannot start a sequence
Utf8More(b) ==
  IF b < 128 THEN 0
  ELSE IF b >= 194 /\ b <= 223 THEN 1
  ELSE IF b >= 224 /\ b <= 239 THEN 2
  ELSE IF b >= 240 /\ b <= 244 THEN 3
  ELSE -1

\* the n continuation escapes %XX (bytes 0x80..0xBF) expected at s[i..]:
\* [ok, bytes]
RECURSIVE Utf8Continuation(_, _, _)
Utf8Continuation(s, i, n) ==
  IF n = 0 THEN [ok |-> TRUE, bytes |-> <<>>]
  ELSE IF ~IsEscape(s, i) THEN [ok |-> FALSE, bytes |-> <<>>]
  ELSE LET b == EscapeByte(s, i)
           rest == Utf8Continuation(s, i + 3, n - 1)
       IN IF b < 128 \/ b > 191 \/ ~rest.ok THEN [ok |-> FALSE, bytes |-> <<>>]
          ELSE [ok |-> TRUE, bytes |-> <<b>> \o rest.bytes]

\* decodeURIComponent(s) from position i: [ok, v]; ok = FALSE is the
\* URIError ("URI malformed") it throws on a "%" that does not start a
\* well-formed UTF-8 escape sequence
RECURSIVE DecodeFrom(_, _)
DecodeFrom(s, i) ==
  IF i > Len(s) THEN [ok |-> TRUE, v |-> <<>>]
  ELSE LET plain == s[i] # "%"
           b == EscapeByte(s, i)
           n == Utf8More(b)
           cont == Utf8Continuation(s, i + 3, n)
           malformed == ~plain /\ (~IsEscape(s, i) \/ n < 0 \/ ~cont.ok)
       IN IF malformed THEN [ok |-> FALSE, v |-> <<>>]
          ELSE LET rest == DecodeFrom(s, IF plain THEN i + 1 ELSE i + 3 + 3 * n)
               IN [ok |-> rest.ok,
                   v |-> <<IF plain THEN s[i] ELSE Utf8Char(<<b>> \o cont.bytes)>> \o rest.v]

decodeURIComponent(s) == DecodeFrom(s, 1)

-----------------------------------------------------------------------------
(* markdown-it, as far as md.parse(text, {}) of extractMarkdownLinks uses  *)
(* it: inline links [label](destination) and images ![alt](destination),   *)
(* the destination bare or in angle brackets. Reference links, titles,     *)
(* nested brackets and code spans are not in the documents drawn.          *)

NoAttr == <<"null">>

MdWhite == {" ", "\n"}

\* characters mdurl.encode leaves as they are
MdSafeChars ==
  {"a","b","c","d","e","f","g","h","i","j","k","l","m","n","o","p","q","r",
   "s","t","u","v","w","x","y","z","0","1","2","3","4","5","6","7","8","9",
   "A","B","C","D","E","F",
   ";","/","?",":","@","&","=","+","$",",","-","_",".","!","~","*","'",
   "(",")","#"}

\* the percent-encoding of a character outside MdSafeChars
MdEscapeOf(c) ==
  CASE c = " " -> <<"%","2","0">>
    [] c = "%" -> <<"%","2","5">>
    [] c = "<" -> <<"%","3","C">>
    [] c = ">" -> <<"%","3","E">>
    [] c = "[" -> <<"%","5","B">>
    [] c = "]" -> <<"%","5","D">>
    [] c = "é" -> <<"%","C","3","%","A","9">>
    [] OTHER -> <<c>>

\* normalizeLink of markdown-it (mdurl.encode with keepEscaped): an escape
\* %XX already written is kept, every other unsafe character is encoded
RECURSIVE MdEncodeFrom(_, _)
MdEncodeFrom(s, i) ==
  IF i > Len(s) THEN <<>>
  ELSE LET escape == IsEscape(s, i)
       IN (IF escape THEN SubSeq(s, i, i + 2)
           ELSE IF s[i] \in MdSafeChars THEN <<s[i]>>
           ELSE MdEscapeOf(s[i]))
          \o MdEncodeFrom(s, IF escape THEN i + 3 ELSE i + 1)

MdNormalizeLink(dest) == MdEncodeFrom(dest, 1)

\* validateLink of markdown-it: these schemes are never made a link
MdValidateLink(href) ==
  /\ ~StartsWith(href, <<"j","a","v","a","s","c","r","i","p","t",":">>)
  /\ ~StartsWith(href, <<"v","b","s","c","r","i","p","t",":">>)
  /\ ~StartsWith(href, <<"f","i","l","e",":">>)
  /\ ~StartsWith(href, <<"d","a","t","a",":">>)

\* the first position >= i of s that is not white space
RECURSIVE SkipWhite(_, _)
SkipWhite(s, i) ==
  IF i <= Len(s) /\ s[i] \in MdWhite THEN SkipWhite(s, i + 1) ELSE i

\* the link that starts with the "[" at position i of s, if there is one:
\* [ok, href, label, end], end the position of the closing ")"
MdTryLink(s, i) ==
  LET no == [ok |-> FALSE, href |-> <<>>, label |-> <<>>, end |-> i]
      j == IndexOfAny(s, {"[", "]"}, i + 1)
  IN IF j = 0 \/ s[j] # "]" THEN no
     ELSE IF j + 1 > Len(s) \/ s[j + 1] # "(" THEN no
     ELSE
       LET k == SkipWhite(s, j + 2)
           angle == k <= Len(s) /\ s[k] = "<"
           ket == IF angle THEN IndexOfAny(s, {"<", ">", "\n"}, k + 1) ELSE 0
           stop == IndexOfAny(s, MdWhite \cup {"(", ")"}, k)
           dend == IF stop = 0 THEN Len(s) + 1 ELSE stop
       IN IF angle /\ (ket = 0 \/ s[ket] # ">") THEN no
          ELSE
            LET dest == IF angle THEN SubSeq(s, k + 1, ket - 1)
                        ELSE SubSeq(s, k, dend - 1)
                after == SkipWhite(s, IF angle THEN ket + 1 ELSE dend)
                href == MdNormalizeLink(dest)
            IN IF after > Len(s) \/ s[after] # ")" THEN no
               ELSE IF ~MdValidateLink(href) THEN no
               ELSE [ok |-> TRUE, href |-> href,
                     label |-> SubSeq(s, i + 1, j - 1), end |-> after]

TextToken == [type |-> "text", href |-> NoAttr, src |-> NoAttr, children |-> <<>>]

\* the tokens of what starts at position i of s, and the position after
\* it, l being the link tried there: link_open/text/link_close for a link,
\* one image token (its alt text as children) for an image, a text token
\* for anything else
MdTokensAt(s, i, image, l) ==
  IF ~((image \/ s[i] = "[") /\ l.ok) THEN [tokens |-> <<TextToken>>, next |-> i + 1]
  ELSE IF image THEN
    [tokens |-> <<[type |-> "image", href |-> NoAttr, src |-> l.href,
                   children |-> IF l.label = <<>> THEN <<>> ELSE <<TextToken>>]>>,
     next |-> l.end + 1]
  ELSE
    [tokens |-> <<[type |-> "link_open", href |-> l.href, src |-> NoAttr, children |-> <<>>]>>
                \o (IF l.label = <<>> THEN <<>> ELSE <<TextToken>>)
                \o <<[type |-> "link_close", href |-> NoAttr, src |-> NoAttr,
                       children |-> <<>>]>>,
     next |-> l.end + 1]

\* the tokens so far with those of one more step
MdAdvance(tokens, step) == [tokens |-> tokens \o step.tokens, next |-> step.next]

\* the inline tokens of s, st = [tokens, next] being the tokens of the
\* text before position next
RECURSIVE MdInlineFrom(_, _)
MdInlineFrom(s, st) ==
  IF st.next > Len(s) THEN st.tokens
  ELSE MdInlineFrom(s,
         MdAdvance(st.tokens,
           MdTokensAt(s, st.next,
             s[st.next] = "!" /\ st.next + 1 <= Len(s) /\ s[st.next + 1] = "[",
             MdTryLink(s, IF s[st.next] = "!" /\ st.next + 1 <= Len(s) /\ s[st.next + 1] = "["
                            THEN st.next + 1 ELSE st.next))))

MdInline(s, i) == MdInlineFrom(s, [tokens |-> <<>>, next |-> i])

\* md.parse(text, {}): one paragraph holding the inline tokens
MdParse(s) ==
  IF s = <<>> THEN <<>>
  ELSE << [type |-> "paragraph_open", href |-> NoAttr, src |-> NoAttr, children |-> <<>>],
          [type |-> "inline", href |-> NoAttr, src |-> NoAttr, children |-> MdInline(s, 1)],
          [type |-> "paragraph_close", href |-> NoAttr, src |-> NoAttr, children |-> <<>>] >>

-----------------------------------------------------------------------------
(* parser.ts: link extraction. *)

\* Token.attrGet(name): the attribute's value, NoAttr (null) without it
AttrGet(token, name) == IF name = "href" THEN token.href ELSE token.src

\* a JavaScript string or null used as a condition
Truthy(v) == v # NoAttr /\ v # <<>>

\* href.replace(/^<(.+)>$/, '$1')
StripAngle(href) ==
  IF /\ Len(href) >= 3
     /\ href[1] = "<"
     /\ href[Len(href)] = ">"
     /\ \A i \in 2..(Len(href) - 1) : href[i] # "\n"
    THEN SubSeq(href, 2, Len(href) - 1)
    ELSE href

isUrlLink(href) ==
  \/ StartsWith(href, <<"h","t","t","p",":","/","/">>)
  \/ StartsWith(href, <<"h","t","t","p","s",":","/","/">>)

\* the condition of the "unsupported format" branch of extractMarkdownLinks
IsUnsupported(href) ==
  \/ StartsWith(href, <<"#">>)
  \/ StartsWith(href, <<"m","a","i","l","t","o",":">>)
  \/ StartsWith(href, <<"j","a","v","a","s","c","r","i","p","t",":">>)

\* normalizeLink(href, baseDir): [ok, v]; ok = FALSE when decodeURIComponent
\* throws, which normalizeLink does not catch
normalizeLink(href, dir) ==
  IF IsAbsolute(href) \/ isUrlLink(href) THEN [ok |-> TRUE, v |-> href]
  ELSE LET decodedHref == decodeURIComponent(href)
       IN IF ~decodedHref.ok THEN [ok |-> FALSE, v |-> <<>>]
          ELSE [ok |-> TRUE, v |-> PathResolve(dir, decodedHref.v)]

\* the callback extractMarkdownLinks hands to walkTokens, applied to one
\* token: acc = [threw, links] is the links array so far
ExtractCallback(token, dir, acc) ==
  IF acc.threw THEN acc
  ELSE IF token.type \notin {"link_open", "image"} THEN acc
  ELSE
    LET got == IF Truthy(AttrGet(token, "href")) THEN AttrGet(token, "href")
               ELSE AttrGet(token, "src")
    IN IF ~Truthy(got) THEN acc
       ELSE LET href == StripAngle(got)
            IN IF isUrlLink(href) THEN acc
               ELSE IF IsUnsupported(href) THEN acc
               ELSE LET n == normalizeLink(href, dir)
                    IN IF ~n.ok THEN [threw |-> TRUE, links |-> <<>>]
                       ELSE [acc EXCEPT !.links = Append(@, n.v)]

\* walkTokens(tokens, callback): the token, then its children, then the
\* tokens after it
RECURSIVE walkTokens(_, _, _)
walkTokens(tokens, dir, acc) ==
  IF Len(tokens) = 0 THEN acc
  ELSE walkTokens(Head(tokens).children \o Tail(tokens), dir,
                  ExtractCallback(Head(tokens), dir, acc))

\* extractMarkdownLinks(text, baseDir): [threw, links]
extractMarkdownLinks(t, dir) ==
  walkTokens(MdParse(t), dir, [threw |-> FALSE, links |-> <<>>])

\* the body of the for loop of extractLinksFromNotebook for one cell;
\* threw is any exception raised inside the try block: a cell that is not
\* an object, cell.source.join on something that has no join, or
\* extractMarkdownLinks raising
NotebookCell(cell, dir) ==
  IF cell.kind # "object" THEN [threw |-> TRUE, links |-> <<>>]
  ELSE IF cell.cell_type # "markdown" THEN [threw |-> FALSE, links |-> <<>>]
  ELSE IF cell.source.kind # "array" THEN [threw |-> TRUE, links |-> <<>>]
  ELSE extractMarkdownLinks(Join(cell.source.lines, <<>>), dir)

\* links.push(...extractMarkdownLinks(...)), or the exception going on
PushLinks(links, r) ==
  IF r.threw THEN [threw |-> TRUE, links |-> <<>>]
  ELSE [threw |-> FALSE, links |-> links \o r.links]

\* the for loop of extractLinksFromNotebook from cell i on, acc = [threw,
\* links] being what the cells before it gave
RECURSIVE NotebookCells(_, _, _, _)
NotebookCells(cells, i, dir, acc) ==
  IF i > Len(cells) \/ acc.threw THEN acc
  ELSE NotebookCells(cells, i + 1, dir, PushLinks(acc.links, NotebookCell(cells[i], dir)))

\* catch (error) { return []; } around a block that produced r
CatchReturnsEmpty(r) == IF r.threw THEN [threw |-> FALSE, links |-> <<>>] ELSE r

\* the try block of extractLinksFromNotebook
NotebookTry(content, dir) ==
  IF content.json # "valid" THEN [threw |-> TRUE, links |-> <<>>]
  ELSE IF content.data.kind # "object" THEN
    \* data.cells of null throws; of a number, string or array it is undefined
    IF content.data.kind = "null" THEN [threw |-> TRUE, links |-> <<>>]
    ELSE [threw |-> FALSE, links |-> <<>>]
  ELSE IF content.data.cells.kind = "absent" THEN [threw |-> FALSE, links |-> <<>>]
  ELSE IF content.data.cells.kind # "array" THEN [threw |-> TRUE, links |-> <<>>]
  ELSE NotebookCells(content.data.cells.items, 1, dir, [threw |-> FALSE, links |-> <<>>])

\* mutant of extractLinksFromNotebook: the try block without its catch
extractLinksFromNotebook_NoCatch(content, dir) == NotebookTry(content, dir)

\* extractLinksFromNotebook(content, baseDir): catch returns []
extractLinksFromNotebook(content, dir) == CatchReturnsEmpty(NotebookTry(content, dir))

-----------------------------------------------------------------------------
(* The inputs drawn: link targets as written in a document. *)

tHttps == <<"h","t","t","p","s",":","/","/","e">>
tHttp == <<"h","t","t","p",":","/","/","e">>
tAnchor == <<"#","h">>
tMailto == <<"m","a","i","l","t","o",":","u">>
tScript == <<"j","a","v","a","s","c","r","i","p","t",":","a">>
tCustom == <<"c","u","s","t","o","m",":","p">>
tRel == <<"f",".","m","d">>
tUp == <<".",".","/","f",".","m","d">>
tAbs == <<"/","x","/","f",".","m","d">>
tEnc == <<"a","%","2","0","b",".","m","d">>
tAbsEnc == <<"/","x","/","a","%","2","0","b",".","m","d">>
tBadEnc == <<"%","E","9",".","m","d">>
tSpace == <<"a"," ","b",".","m","d">>
tUni == <<"é",".","m","d">>
tEmpty == <<>>

dirDocs == <<"/","w","/","d">>
dirRoot == <<"/","w">>
BaseDirs == {dirDocs, dirRoot}

Link(t) == [kind |-> "link", target |-> t, angle |-> FALSE]
Image(t) == [kind |-> "image", target |-> t, angle |-> FALSE]
Angled(t) == [kind |-> "link", target |-> t, angle |-> TRUE]

\* one occurrence, as written: [t](target), ![t](target) or [t](<target>)
PiecePool ==
  { Link(t) : t \in {tHttps, tHttp, tAnchor, tMailto, tScript, tCustom, tRel, tUp,
                     tAbs, tEnc, tAbsEnc, tBadEnc, tUni, tEmpty} }
  \cup { Image(t) : t \in {tHttps, tRel, tAbs} }
  \cup { Angled(t) : t \in {tSpace, tRel} }

\* the markdown text of one occurrence
Render(p) ==
  (IF p.kind = "image" THEN <<"!">> ELSE <<>>)
  \o <<"[", "t", "]", "(">>
  \o (IF p.angle THEN <<"<">> \o p.target \o <<">">> ELSE p.target)
  \o <<")">>

\* the markdown text of a document: its occurrences, a space between them
RenderDoc(ps) == Join([i \in 1..Len(ps) |-> Render(ps[i])], <<" ">>)

\* the sequences over set S of length at most n
SeqsUpTo(S, n) == UNION { [1..k -> S] : k \in 0..n }

-----------------------------------------------------------------------------
(* The inputs drawn: notebook contents. JSON.parse is not computed: a       *)
(* content is either malformed JSON or the value it denotes.                *)

\* cells of one notebook
MaxCells == 2

lineRel == <<"[","t","]","(","f",".","m","d",")","\n">>
lineAbs == <<"!","[","t","]","(","/","x","/","f",".","m","d",")">>
lineUrl == <<"[","t","]","(","h","t","t","p","s",":","/","/","e",")">>
lineBadEnc == <<"[","t","]","(","%","E","9",".","m","d",")">>
lineHead == <<"[","t","]","(","f">>
lineTail == <<".","m","d",")">>

Lines(ls) == [kind |-> "array", lines |-> ls]
NotLines(k) == [kind |-> k, lines |-> <<>>]

\* cell.source: a list of lines, a single string (nbformat allows it) or missing
SourcePool ==
  { Lines(ls) : ls \in { <<>>, <<lineRel>>, <<lineAbs>>, <<lineUrl>>, <<lineBadEnc>>,
                         <<lineRel, lineAbs>>, <<lineHead, lineTail>>,
                         <<lineUrl, lineRel>> } }
  \cup { NotLines("string"), NotLines("absent") }

Cell(type, source) == [kind |-> "object", cell_type |-> type, source |-> source]
NullCell == [kind |-> "null", cell_type |-> "", source |-> NotLines("absent")]

CellPool ==
  { Cell("markdown", src) : src \in SourcePool }
  \cup { Cell("code", Lines(<<lineRel>>)), Cell("code", NotLines("string")),
         Cell("raw", Lines(<<lineAbs>>)), NullCell }

Cells(k, items) == [kind |-> k, items |-> items]
Data(k, cells) == [kind |-> k, cells |-> cells]
Content(j, data) == [json |-> j, data |-> data]

\* the contents handed to extractLinksFromNotebook
NotebookPool ==
  { Content("valid", Data("object", Cells("array", cs))) : cs \in SeqsUpTo(CellPool, MaxCells) }
  \cup { Content("valid", Data("object", Cells("absent", <<>>))),
         Content("valid", Data("object", Cells("object", <<>>))),
         Content("valid", Data("null", Cells("absent", <<>>))),
         Content("valid", Data("number", Cells("absent", <<>>))),
         Content("malformed", Data("null", Cells("absent", <<>>))) }

NoNotebook == Content("none", Data("null", Cells("absent", <<>>)))

-----------------------------------------------------------------------------
(* Specification of the extraction entry points: a document (or notebook)  *)
(* and a base directory are drawn, and the function is applied to them.    *)

NotRun == [done |-> FALSE, threw |-> FALSE, links |-> <<>>]
Ran(r) == [done |-> TRUE, threw |-> r.threw, links |-> r.links]

InitExtract ==
  /\ mode \in {"markdown", "notebook"}
  /\ baseDir \in BaseDirs
  /\ out = NotRun
  /\ IF mode = "markdown"
       THEN /\ pieces \in SeqsUpTo(PiecePool, MaxLinks)
            /\ text = RenderDoc(pieces)
            /\ notebook = NoNotebook
       ELSE /\ pieces = <<>>
            /\ text = <<>>
            /\ notebook \in NotebookPool

\* a call extractMarkdownLinks(text, baseDir)
RunExtractMarkdown ==
  /\ mode = "markdown"
  /\ ~out.done
  /\ out' = Ran(extractMarkdownLinks(text, baseDir))
  /\ UNCHANGED <<mode, pieces, text, notebook, baseDir, probeVars, detectVars, repairVars, pathVars, eventVars, lateVars>>

\* a call extractLinksFromNotebook(content, baseDir)
RunExtractNotebook ==
  /\ mode = "notebook"
  /\ ~out.done
  /\ out' = Ran(extractLinksFromNotebook(notebook, baseDir))
  /\ UNCHANGED <<mode, pieces, text, notebook, baseDir, probeVars, detectVars, repairVars, pathVars, eventVars, lateVars>>

\* the extraction variables of a behaviour that calls no extraction
ExtractIdle ==
  /\ mode = "idle"
  /\ pieces = <<>>
  /\ text = <<>>
  /\ notebook = NoNotebook
  /\ baseDir = <<>>
  /\ out = NotRun

-----------------------------------------------------------------------------
(* Claims about extraction. They are stated on the document as written     *)
(* (pieces), not on what the parser made of it.                            *)

\* a target, as written, that begins with one of the five skipped prefixes
SkippedAsWritten(t) ==
  \/ StartsWith(t, <<"h","t","t","p",":","/","/">>)
  \/ StartsWith(t, <<"h","t","t","p","s",":","/","/">>)
  \/ StartsWith(t, <<"#">>)
  \/ StartsWith(t, <<"m","a","i","l","t","o",":">>)
  \/ StartsWith(t, <<"j","a","v","a","s","c","r","i","p","t",":">>)

IsNonEmptyFileTarget(p) == ~SkippedAsWritten(p.target) /\ p.target # <<>>

MarkdownDone == out.done /\ mode = "markdown"
NotebookDone == out.done /\ mode = "notebook"

\* C1: the targets that begin with http://, https://, #, mailto: or
\* javascript: contribute nothing to the output of extractMarkdownLinks and
\* every other target contributes exactly one entry. (Read in the claim's
\* favour: an occurrence written with an empty target, [t](), which the
\* code drops, is not counted as a target.)
C1_EveryOtherTargetOneEntry ==
  MarkdownDone =>
    /\ ~out.threw
    /\ Len(out.links) = Len(SelectSeq(pieces, IsNonEmptyFileTarget))

\* What does hold of extractMarkdownLinks: when it returns, it returns one
\* entry per non-empty target without a skipped prefix, in order.
ExtractReturnsOnePerFileTarget ==
  LET files == SelectSeq(pieces, IsNonEmptyFileTarget)
  IN (MarkdownDone /\ ~out.threw) =>
       /\ Len(out.links) = Len(files)
       /\ \A i \in 1..Len(files) : <<out.links[i]>> = extractMarkdownLinks(Render(files[i]), baseDir).links

\* C2: the path emitted for a file target T, relative or absolute, encoded
\* or not, is the percent-decoded T resolved against the document's
\* directory.
C2_EmittedIsDecodedResolved ==
  LET files == SelectSeq(pieces, IsNonEmptyFileTarget)
  IN (MarkdownDone /\ ~out.threw /\ Len(out.links) = Len(files)) =>
       \A i \in 1..Len(files) :
         LET decoded == decodeURIComponent(files[i].target)
         IN decoded.ok => out.links[i] = PathResolve(baseDir, decoded.v)

\* the entry the extractor emits for one occurrence written alone
EntryAlone(p) == extractMarkdownLinks(Render(p), baseDir)

\* C3: the output of extractMarkdownLinks has exactly one entry per
\* file-classified occurrence, in the order of the occurrences, duplicates
\* kept.
C3_OneEntryPerOccurrenceInOrder ==
  LET files == SelectSeq(pieces, IsNonEmptyFileTarget)
  IN MarkdownDone =>
       /\ ~out.threw
       /\ Len(out.links) = Len(files)
       /\ \A i \in 1..Len(files) : <<out.links[i]>> = EntryAlone(files[i]).links

\* a content that has the expected notebook structure: JSON for an object
\* whose cells are a list of objects, each markdown cell's source a list
Parseable(content) ==
  /\ content.json = "valid"
  /\ content.data.kind = "object"
  /\ content.data.cells.kind = "array"
  /\ \A i \in 1..Len(content.data.cells.items) :
       LET cell == content.data.cells.items[i]
       IN /\ cell.kind = "object"
          /\ cell.cell_type = "markdown" => cell.source.kind = "array"

IsMarkdownCell(cell) == cell.cell_type = "markdown"

\* the markdown cells of a parseable notebook, each run through
\* extractMarkdownLinks on its lines joined with no separator
PerCell(content) ==
  LET cells == SelectSeq(content.data.cells.items, IsMarkdownCell)
  IN [i \in 1..Len(cells) |-> extractMarkdownLinks(Join(cells[i].source.lines, <<>>), baseDir)]

\* C4: for a parseable notebook extractLinksFromNotebook equals the
\* concatenation, in cell order, of extractMarkdownLinks over its markdown
\* cells.
C4_NotebookIsConcatenation ==
  (NotebookDone /\ Parseable(notebook)) =>
    LET per == PerCell(notebook)
    IN /\ \A i \in 1..Len(per) : ~per[i].threw
       /\ ~out.threw
       /\ out.links = Flatten([i \in 1..Len(per) |-> per[i].links])

\* C5: extractLinksFromNotebook never raises, and returns the empty
\* sequence for every content that is not parseable as a notebook.
C5_NotebookFailsSoft ==
  NotebookDone =>
    /\ ~out.threw
    /\ ~Parseable(notebook) => out.links = <<>>

\* C5 witness: a notebook whose first markdown cell holds a file link and
\* whose second markdown cell has a source that is no list: the call
\* returned, with nothing.
C5_Witness ==
  /\ NotebookDone
  /\ notebook.data.cells.kind = "array"
  /\ Len(notebook.data.cells.items) = 2
  /\ notebook.data.cells.items[1] = Cell("markdown", Lines(<<lineRel>>))
  /\ notebook.data.cells.items[2] = Cell("markdown", NotLines("string"))
  /\ out.links = <<>>

-----------------------------------------------------------------------------
(* parser.ts: broken-link detection. *)

\* what the file system holds at a path
FsEntries == {"file", "dir", "special", "none", "denied", "loop"}

\* fs.statSync(link): a Stats object, or an exception with its code
StatSync(files, link) ==
  LET entry == IF link \in DOMAIN files THEN files[link] ELSE "none"
  IN CASE entry = "file" -> [threw |-> FALSE, code |-> "", isFile |-> TRUE, isDirectory |-> FALSE]
       [] entry = "dir" -> [threw |-> FALSE, code |-> "", isFile |-> FALSE, isDirectory |-> TRUE]
       [] entry = "special" -> [threw |-> FALSE, code |-> "", isFile |-> FALSE, isDirectory |-> FALSE]
       [] entry = "none" -> [threw |-> TRUE, code |-> "ENOENT", isFile |-> FALSE, isDirectory |-> FALSE]
       [] entry = "denied" -> [threw |-> TRUE, code |-> "EACCES", isFile |-> FALSE, isDirectory |-> FALSE]
       [] OTHER -> [threw |-> TRUE, code |-> "ELOOP", isFile |-> FALSE, isDirectory |-> FALSE]

Returns(v) == [threw |-> FALSE, v |-> v]
Raises == [threw |-> TRUE, v |-> FALSE]

\* mutant of isLinkBroken: a directory counts as broken
isLinkBroken_DirectoryBroken(files, link) ==
  LET stat == StatSync(files, link)
  IN IF stat.threw THEN Returns(TRUE)
     ELSE IF stat.isFile THEN Returns(FALSE)
     ELSE Returns(TRUE)

\* isLinkBroken(link): [threw, v]
isLinkBroken(files, link) ==
  LET stat == StatSync(files, link)
  IN IF stat.threw THEN
       \* the catch block
       IF stat.code = "ENOENT" THEN Returns(TRUE)
       ELSE IF stat.code = "EACCES" THEN Returns(TRUE)
       ELSE Returns(TRUE)
     ELSE IF stat.isFile THEN Returns(FALSE)
     ELSE IF stat.isDirectory THEN Returns(FALSE)
     ELSE Returns(TRUE)

\* the inner loop of findBrokenLinks over the links of one document from
\* link j on
RECURSIVE BrokenOfFile(_, _, _, _, _)
BrokenOfFile(files, filePath, links, j, acc) ==
  IF j > Len(links) THEN acc
  ELSE LET link == links[j]
       IN BrokenOfFile(files, filePath, links, j + 1,
            IF isLinkBroken(files, link).v
              THEN Append(acc, [filePath |-> filePath, brokenLink |-> link,
                                originalLink |-> link])
              ELSE acc)

\* the outer loop of findBrokenLinks over Object.keys(index) from entry i on
RECURSIVE BrokenOfIndex(_, _, _, _)
BrokenOfIndex(files, index, i, acc) ==
  IF i > Len(index) THEN acc
  ELSE BrokenOfIndex(files, index, i + 1,
         BrokenOfFile(files, index[i].key, index[i].links, 1, acc))

\* a sequence without the elements that repeat an earlier one
RECURSIVE DropRepeats(_)
DropRepeats(q) ==
  IF Len(q) = 0 THEN <<>>
  ELSE LET front == DropRepeats(SubSeq(q, 1, Len(q) - 1))
           last == q[Len(q)]
       IN IF \E k \in 1..(Len(q) - 1) : q[k] = last THEN front ELSE Append(front, last)

\* mutant of findBrokenLinks: one record per distinct broken path of a document
findBrokenLinks_Dedup(files, index) == DropRepeats(BrokenOfIndex(files, index, 1, <<>>))

\* findBrokenLinks(index): the Broken Link Records
findBrokenLinks(files, index) == BrokenOfIndex(files, index, 1, <<>>)

-----------------------------------------------------------------------------
(* registry.ts: the Registry, and parseFile / handleFileUpdate of          *)
(* extension.ts, which fill it.                                            *)

\* position of key in the index, 0 without it
RECURSIVE IndexOfKey(_, _, _)
IndexOfKey(index, key, i) ==
  IF i > Len(index) THEN 0
  ELSE IF index[i].key = key THEN i
  ELSE IndexOfKey(index, key, i + 1)

\* mutant of IndexSet: the links are merged into those of an existing entry
IndexSet_Merge(index, key, links) ==
  LET i == IndexOfKey(index, key, 1)
  IN IF i = 0 THEN Append(index, [key |-> key, links |-> links])
     ELSE [index EXCEPT ![i] = [key |-> key, links |-> @.links \o links]]

\* this.linkIndex[uri.fsPath] = links: an existing key keeps its place, a
\* new key comes last (the order of Object.keys)
IndexSet(index, key, links) ==
  LET i == IndexOfKey(index, key, 1)
  IN IF i = 0 THEN Append(index, [key |-> key, links |-> links])
     ELSE [index EXCEPT ![i] = [key |-> key, links |-> links]]

\* delete this.linkIndex[uri.fsPath]
IndexDelete(index, key) ==
  LET i == IndexOfKey(index, key, 1)
  IN IF i = 0 THEN index
     ELSE SubSeq(index, 1, i - 1) \o SubSeq(index, i + 1, Len(index))

\* persistToDisk: the index file rewritten, or, when mkdirSync or
\* writeFileSync throws, left as it is (the catch ignores the error)
PersistToDisk(index) ==
  \/ diskIndex' = [exists |-> TRUE, index |-> index]
  \/ diskIndex' = diskIndex

\* path.dirname
PathDirname(p) ==
  LET segs == SplitSlash(p)
  IN IF Len(segs) <= 1 THEN <<".">>
     ELSE IF Len(segs) = 2 /\ segs[1] = <<>> THEN <<"/">>
     ELSE Join(SubSeq(segs, 1, Len(segs) - 1), <<"/">>)

\* parseFile(uri): the links of the file; [] when the file cannot be read,
\* when extraction raises, or when it is neither .md nor .ipynb
parseFile(files, path) ==
  LET file == files[path]
      dir == PathDirname(path)
  IN IF file.kind = "missing" THEN <<>>
     ELSE IF EndsWith(path, <<".", "m", "d">>) THEN
       CatchReturnsEmpty(extractMarkdownLinks(RenderDoc(file.pieces), dir)).links
     ELSE IF EndsWith(path, <<".", "i", "p", "y", "n", "b">>) THEN
       extractLinksFromNotebook(file.notebook, dir).links
     ELSE <<>>

-----------------------------------------------------------------------------
(* Specification of isLinkBroken: a file system is drawn and paths of it   *)
(* are probed.                                                             *)

pathDocsF == <<"/","w","/","d","/","f",".","m","d">>
pathRootF == <<"/","w","/","f",".","m","d">>
pathAbsF == <<"/","x","/","f",".","m","d">>
pathTopF == <<"/","f",".","m","d">>

\* the paths the links of the documents drawn resolve to
LinkPaths == {pathDocsF, pathRootF, pathAbsF}

NotProbed == [done |-> FALSE, link |-> <<>>, threw |-> FALSE, v |-> FALSE]

InitProbe ==
  /\ fs \in [LinkPaths -> FsEntries]
  /\ probe = NotProbed

\* a call isLinkBroken(link)
RunIsLinkBroken(link) ==
  /\ LET r == isLinkBroken(fs, link)
     IN probe' = [done |-> TRUE, link |-> link, threw |-> r.threw, v |-> r.v]
  /\ UNCHANGED <<fs, extractVars, detectVars, repairVars, pathVars, eventVars, lateVars>>

NextProbe == \E link \in LinkPaths \cup {pathTopF} : RunIsLinkBroken(link)

\* the probe variables of a behaviour that probes no single path
ProbeIdle == probe = NotProbed

-----------------------------------------------------------------------------
(* Specification of detection: documents and a file system are drawn, the  *)
(* documents are indexed through the Registry, and findBrokenLinks is run  *)
(* on the index.                                                           *)

docA == <<"/","w","/","d","/","a",".","m","d">>
docB == <<"/","w","/","b",".","m","d">>
DocPaths == {docA, docB}

Markdown(ps) == [kind |-> "markdown", pieces |-> ps, notebook |-> NoNotebook]
Missing == [kind |-> "missing", pieces |-> <<>>, notebook |-> NoNotebook]

\* the contents drawn for the two documents
DocPoolA ==
  { Markdown(<<Link(tRel), Link(tRel)>>),
    Markdown(<<Link(tRel), Link(tAbs), Link(tRel)>>),
    Markdown(<<Image(tAbs), Link(tUp)>>),
    Markdown(<<Link(tHttps)>>) }
DocPoolB ==
  { Markdown(<<Link(tRel), Link(tAbs)>>), Markdown(<<Link(tBadEnc), Link(tRel)>>), Missing }

\* the file systems drawn: every kind of entry at one path, two at the others
FsPool ==
  { [p \in LinkPaths |-> IF p = pathDocsF THEN e1 ELSE IF p = pathRootF THEN e2 ELSE e3] :
      e1 \in FsEntries, e2 \in {"file", "none"}, e3 \in {"dir", "denied"} }

NoDiskIndex == [exists |-> FALSE, index |-> <<>>]
NotDetected == [done |-> FALSE, records |-> <<>>]

InitDetect ==
  /\ docs \in { [d \in DocPaths |-> IF d = docA THEN a ELSE b] : a \in DocPoolA, b \in DocPoolB }
  /\ fs \in FsPool
  /\ linkIndex = <<>>
  /\ diskIndex = NoDiskIndex
  /\ broken = NotDetected

\* handleFileUpdate(uri): parseFile, then Registry.update with its links
HandleFileUpdate(d) ==
  /\ ~broken.done
  /\ linkIndex' = IndexSet(linkIndex, d, parseFile(docs, d))
  /\ PersistToDisk(linkIndex')
  /\ UNCHANGED <<docs, broken, fs, probe, extractVars, repairVars, pathVars, eventVars, lateVars>>

\* Registry.remove(uri)
RegistryRemove(d) ==
  /\ ~broken.done
  /\ linkIndex' = IndexDelete(linkIndex, d)
  /\ PersistToDisk(linkIndex')
  /\ UNCHANGED <<docs, broken, fs, probe, extractVars, repairVars, pathVars, eventVars, lateVars>>

\* findBrokenLinks(registry.getAll())
RunFindBrokenLinks ==
  /\ ~broken.done
  /\ broken' = [done |-> TRUE, records |-> findBrokenLinks(fs, linkIndex)]
  /\ UNCHANGED <<docs, linkIndex, diskIndex, fs, probe, extractVars, repairVars, pathVars, eventVars, lateVars>>

NextDetect ==
  \/ \E d \in DocPaths : HandleFileUpdate(d)
  \/ \E d \in DocPaths : RegistryRemove(d)
  \/ RunFindBrokenLinks

\* the detection variables of a behaviour that indexes nothing
DetectIdle ==
  /\ docs = [d \in DocPaths |-> Missing]
  /\ linkIndex = <<>>
  /\ diskIndex = NoDiskIndex
  /\ broken = NotDetected

FsIdle == fs = [p \in LinkPaths |-> "none"]

-----------------------------------------------------------------------------
(* Claims about detection. *)

\* what the file system holds at a path makes a link to it broken
BrokenEntry(link) ==
  (IF link \in DOMAIN fs THEN fs[link] ELSE "none") \notin {"file", "dir"}

\* C6: isLinkBroken never raises and returns false exactly when the path
\* stats as a regular file or as a directory.
C6_BrokenUnlessFileOrDirectory ==
  probe.done => /\ ~probe.threw
                /\ probe.v = BrokenEntry(probe.link)

\* C6 witness: a directory was probed and found not broken.
C6_Witness ==
  /\ probe.done
  /\ probe.link \in DOMAIN fs
  /\ fs[probe.link] = "dir"
  /\ ~probe.v

IsBrokenPair(pr) == BrokenEntry(pr[2])

\* the (document, link) occurrences of the index whose path is broken, in
\* index order
BrokenOccurrences(index) ==
  Flatten([i \in 1..Len(index) |->
             SelectSeq([j \in 1..Len(index[i].links) |-> <<index[i].key, index[i].links[j]>>],
                       IsBrokenPair)])

\* C7: findBrokenLinks returns exactly one record per (document, link
\* occurrence) of the index whose path is broken, in index order, and none
\* for a path that exists.
C7_OneRecordPerBrokenOccurrence ==
  broken.done =>
    [i \in 1..Len(broken.records) |->
       <<broken.records[i].filePath, broken.records[i].brokenLink>>]
      = BrokenOccurrences(linkIndex)

\* C7 witness: a document that lists the same broken path twice, and a path
\* that exists between them, yields two records.
C7_Witness ==
  /\ broken.done
  /\ Len(linkIndex) = 1
  /\ linkIndex[1].links = <<pathDocsF, pathAbsF, pathDocsF>>
  /\ Len(broken.records) = 2
  /\ broken.records[1].brokenLink = pathDocsF
  /\ broken.records[2].brokenLink = pathDocsF

\* C8: the originalLink of every Broken Link Record is the target as it is
\* written in the document, of an occurrence that resolves to the broken
\* path.
C8_OriginalLinkIsAsWritten ==
  broken.done =>
    \A i \in 1..Len(broken.records) :
      LET r == broken.records[i]
          ps == docs[r.filePath].pieces
      IN \E k \in 1..Len(ps) :
           /\ extractMarkdownLinks(Render(ps[k]), PathDirname(r.filePath)).links = <<r.brokenLink>>
           /\ r.originalLink = ps[k].target

-----------------------------------------------------------------------------
(* Node's path module: parse, basename, relative. *)

\* String.prototype.lastIndexOf of one character, searching back from i; 0
\* when there is none
RECURSIVE LastIndexOf(_, _, _)
LastIndexOf(s, c, i) ==
  IF i < 1 THEN 0
  ELSE IF s[i] = c THEN i
  ELSE LastIndexOf(s, c, i - 1)

\* path.basename
PathBasename(p) == LET segs == SplitSlash(p) IN segs[Len(segs)]

\* path.parse: dir is empty for a bare name, ext starts at the last dot of
\* base unless base starts with it
PathParse(p) ==
  LET segs == SplitSlash(p)
      base == segs[Len(segs)]
      dir == IF Len(segs) = 1 THEN <<>>
             ELSE IF Len(segs) = 2 /\ segs[1] = <<>> THEN <<"/">>
             ELSE Join(SubSeq(segs, 1, Len(segs) - 1), <<"/">>)
      dot == LastIndexOf(base, ".", Len(base))
      ext == IF dot <= 1 THEN <<>> ELSE From(base, dot)
  IN [dir |-> dir, base |-> base, ext |-> ext,
      name |-> SubSeq(base, 1, Len(base) - Len(ext))]

\* the length of the longest common prefix of two segment lists, from i on
RECURSIVE CommonPrefix(_, _, _)
CommonPrefix(a, b, i) ==
  IF i > Len(a) \/ i > Len(b) THEN i - 1
  ELSE IF a[i] # b[i] THEN i - 1
  ELSE CommonPrefix(a, b, i + 1)

\* path.relative(from, to) for absolute paths: one ".." per segment of
\* `from` below the common ancestor, then the rest of `to`; "" when equal
PathRelative(from, to) ==
  LET f == NormalizeSegs(SplitSlash(from), <<>>, TRUE)
      t == NormalizeSegs(SplitSlash(to), <<>>, TRUE)
      c == CommonPrefix(f, t, 1)
  IN Join([i \in 1..(Len(f) - c) |-> <<".", ".">>] \o SubSeq(t, c + 1, Len(t)), <<"/">>)

\* s.replace(/\\/g, '/')
ReplaceBackslash(s) == [i \in 1..Len(s) |-> IF s[i] = "\\" THEN "/" ELSE s[i]]

\* calculateRelativePath(fromFile, toFile)
calculateRelativePath(fromFile, toFile) ==
  ReplaceBackslash(PathRelative(PathDirname(fromFile), toFile))

\* text.replace(new RegExp(escapeRegExp(pat), 'ug'), rep): every occurrence
\* of the literal pat, left to right without overlap; the empty pattern
\* matches before every character and at the end
RECURSIVE ReplaceAll(_, _, _)
ReplaceAll(s, pat, rep) ==
  IF Len(pat) = 0 THEN rep \o Flatten([i \in 1..Len(s) |-> <<s[i]>> \o rep])
  ELSE IF Len(s) < Len(pat) THEN s
  ELSE LET match == StartsWith(s, pat)
       IN (IF match THEN rep ELSE <<s[1]>>)
          \o ReplaceAll(From(s, IF match THEN Len(pat) + 1 ELSE 2), pat, rep)

-----------------------------------------------------------------------------
(* vscode.workspace.findFiles and findSmartReplacementCandidates. *)

\* the maxResults arguments of the searches
SearchLimit == 20
CrossFormatLimit == 10

wsSelf == <<"/", "w", "/", "d", "/", "f", ".", "m", "d">>
wsExact == <<"/", "w", "/", "e", "/", "d", "/", "f", ".", "m", "d">>
wsLoose == <<"/", "w", "/", "e", "/", "f", ".", "m", "d">>
wsAltExact == <<"/", "w", "/", "e", "/", "d", "/", "f", ".", "i", "p", "y", "n", "b">>
wsAltLoose == <<"/", "w", "/", "e", "/", "f", ".", "i", "p", "y", "n", "b">>
wsMarkdown == <<"/", "w", "/", "e", "/", "d", "/", "f", ".", "m", "a", "r", "k", "d", "o", "w", "n">>

\* the files a search of the workspace can find
WsFiles == {wsSelf, wsExact, wsLoose, wsAltExact, wsAltLoose, wsMarkdown}

\* the glob **/suffix matches the paths that end with /suffix
GlobMatches(suffix, p) == EndsWith(p, <<"/">> \o suffix)

\* the sequences that list every element of set S once
Orders(S) == { q \in [1..Cardinality(S) -> S] : \A i, j \in 1..Cardinality(S) : q[i] = q[j] => i = j }

NoCall == [called |-> FALSE, threw |-> FALSE, files |-> <<>>]
Found(q) == [called |-> TRUE, threw |-> FALSE, files |-> q]
FindThrows == [called |-> TRUE, threw |-> TRUE, files |-> <<>>]

\* what one call findFiles(`**/${suffix}`, undefined, limit) can produce on
\* workspace files: it rejects, or resolves to matching files in some order;
\* not all of them when the limit, an exclude setting or a change of the
\* workspace since the previous search cuts the list
FindFiles(files, suffix, limit) ==
  {FindThrows} \cup
  { Found(q) : q \in UNION { Orders(T) : T \in { U \in SUBSET { p \in files : GlobMatches(suffix, p) } :
                                                   Cardinality(U) <= limit } } }

\* the alternativeExtensions of an extension
AlternativeExtensions(ext) ==
  IF ext = <<".", "m", "d">> THEN << <<".", "i", "p", "y", "n", "b">> >>
  ELSE IF ext = <<".", "i", "p", "y", "n", "b">>
    THEN << <<".", "m", "d">>, <<".", "m", "a", "r", "k", "d", "o", "w", "n">> >>
  ELSE <<>>

\* the most cross-format extensions a path has
MaxAlternatives == 2

\* the searches findSmartReplacementCandidates makes for a broken path, in
\* order: exact, loose, then exact and loose of each alternative extension;
\* [made, suffix, limit], made = FALSE for a search the path does not lead to
Plan(made, suffix, limit) == [made |-> made, suffix |-> suffix, limit |-> limit]

\* the alternativeExtensions of a parsed path, none without an extension
AlternativesOf(brokenPath) ==
  IF Len(brokenPath.ext) > 0 THEN AlternativeExtensions(brokenPath.ext) ELSE <<>>

\* the two searches of one extension: in the folder of the broken path
\* (when it has one), then anywhere
SearchPair(hasDir, folder, fileName, limit) ==
  << Plan(hasDir, folder \o fileName, limit), Plan(TRUE, fileName, limit) >>

SearchPlanOf(brokenPath, hasDir, folder, alts) ==
  SearchPair(hasDir, folder, brokenPath.base, SearchLimit)
  \o Flatten([k \in 1..MaxAlternatives |->
       IF k <= Len(alts)
         THEN SearchPair(hasDir, folder, brokenPath.name \o alts[k], CrossFormatLimit)
         ELSE << Plan(FALSE, <<>>, 0), Plan(FALSE, <<>>, 0) >>])

SearchPlanParsed(brokenPath) ==
  SearchPlanOf(brokenPath, Len(brokenPath.dir) > 0,
               PathBasename(brokenPath.dir) \o <<"/">>, AlternativesOf(brokenPath))

SearchPlan(brokenLink) == SearchPlanParsed(PathParse(brokenLink))

\* the outcomes of one search of the plan
SearchOutcomes(files, search1) ==
  IF search1.made THEN FindFiles(files, search1.suffix, search1.limit) ELSE {NoCall}

\* what the searches of a plan can produce from search k on, one outcome
\* for each search
RECURSIVE SearchResultsFrom(_, _, _)
SearchResultsFrom(files, plan, k) ==
  IF k > Len(plan) THEN { <<>> }
  ELSE { <<r>> \o rest : r \in SearchOutcomes(files, plan[k]),
                         rest \in SearchResultsFrom(files, plan, k + 1) }

\* what the searches for a broken path can produce
SearchResults(files, brokenLink) == SearchResultsFrom(files, SearchPlan(brokenLink), 1)

\* Array.prototype.includes
SeqIncludes(q, x) == \E i \in 1..Len(q) : q[i] = x

\* one iteration of the cross-format loop from tiers t = [exact, loose]: the
\* exact search (when the path has a folder), then the loose search; an
\* exception of either leaves the iteration at that point
CrossFormat(t, hasDir, altExact, altLoose) ==
  IF hasDir /\ altExact.threw THEN t
  ELSE LET exact == IF hasDir THEN t.exact \o altExact.files ELSE t.exact
       IN IF altLoose.threw THEN [exact |-> exact, loose |-> t.loose]
          ELSE LET NewMatch(c) == ~SeqIncludes(exact, c) /\ ~SeqIncludes(t.loose, c)
               IN [exact |-> exact, loose |-> t.loose \o SelectSeq(altLoose.files, NewMatch)]

\* the cross-format loop over alternativeExtensions from extension k on
RECURSIVE CrossFormatFrom(_, _, _, _, _)
CrossFormatFrom(t, hasDir, find, nAlts, k) ==
  IF k > nAlts THEN t
  ELSE CrossFormatFrom(CrossFormat(t, hasDir, find[2 * k + 1], find[2 * k + 2]),
                       hasDir, find, nAlts, k + 1)

\* the filters at the end: neither tier keeps the broken path itself
WithoutBroken(t, brokenLink) ==
  LET NotBroken(c) == c # brokenLink
  IN [exactFolderMatches |-> SelectSeq(t.exact, NotBroken),
      looseMatches |-> SelectSeq(t.loose, NotBroken)]

\* mutant of findSmartReplacementCandidates: the loose search keeps the
\* matches that are already exact matches
findSmartReplacementCandidates_LooseUnfiltered(brokenLink, find) ==
  LET Unfiltered(hasDir, nAlts) ==
        WithoutBroken(CrossFormatFrom(
          [exact |-> IF hasDir /\ ~find[1].threw THEN find[1].files ELSE <<>>,
           loose |-> IF find[2].threw THEN <<>> ELSE find[2].files],
          hasDir, find, nAlts, 1), brokenLink)
      Parsed(brokenPath) == Unfiltered(Len(brokenPath.dir) > 0, Len(AlternativesOf(brokenPath)))
  IN Parsed(PathParse(brokenLink))

\* findSmartReplacementCandidates(brokenLink), find being what its searches
\* produce, in the order of SearchPlan
findSmartReplacementCandidates(brokenLink, find) ==
  LET \* search 2: the loose matches that are not exact matches
      LooseSearch(exact1) ==
        LET NotExact(c) == ~SeqIncludes(exact1, c)
        IN [exact |-> exact1,
            loose |-> IF find[2].threw THEN <<>> ELSE SelectSeq(find[2].files, NotExact)]
      \* search 1, search 2, then search 3 (the cross-format loop)
      Searches(hasDir, nAlts) ==
        WithoutBroken(CrossFormatFrom(
          LooseSearch(IF hasDir /\ ~find[1].threw THEN find[1].files ELSE <<>>),
          hasDir, find, nAlts, 1), brokenLink)
      Parsed(brokenPath) == Searches(Len(brokenPath.dir) > 0, Len(AlternativesOf(brokenPath)))
  IN Parsed(PathParse(brokenLink))

-----------------------------------------------------------------------------
(* Specification of the candidate search: a broken path is drawn and       *)
(* findSmartReplacementCandidates is applied to it on the workspace.       *)

brokenIpynb == <<"/", "w", "/", "d", "/", "f", ".", "i", "p", "y", "n", "b">>
brokenBare == <<"f", ".", "m", "d">>
brokenNoExt == <<"/", "w", "/", "d", "/", "f">>

brokenMarkdown == <<"/", "w", "/", "d", "/", "f", ".", "m", "a", "r", "k", "d", "o", "w", "n">>

BrokenInputs == {wsSelf, brokenIpynb, brokenBare, brokenNoExt, brokenMarkdown}

NotSearched == [done |-> FALSE, brokenLink |-> <<>>, find |-> <<>>,
                exactFolderMatches |-> <<>>, looseMatches |-> <<>>]

Searched(brokenLink, find, r) ==
  [done |-> TRUE, brokenLink |-> brokenLink, find |-> find,
   exactFolderMatches |-> r.exactFolderMatches, looseMatches |-> r.looseMatches]

InitCandidates ==
  /\ ws = WsFiles
  /\ search = NotSearched

\* a call findSmartReplacementCandidates(brokenLink)
RunFindSmart(brokenLink) ==
  /\ ~search.done
  /\ \E find \in SearchResults(ws, brokenLink) :
       search' = Searched(brokenLink, find, findSmartReplacementCandidates(brokenLink, find))
  /\ UNCHANGED <<ws, fileText, fix, fixLog, extractVars, probeVars, detectVars, pathVars, eventVars, lateVars>>

NextCandidates == \E brokenLink \in BrokenInputs : RunFindSmart(brokenLink)

\* C9: the two tiers returned by findSmartReplacementCandidates have no
\* path in common, and neither holds the broken path.
C9_TiersDisjointWithoutBroken ==
  search.done =>
    /\ \A i \in 1..Len(search.exactFolderMatches) :
         ~SeqIncludes(search.looseMatches, search.exactFolderMatches[i])
    /\ ~SeqIncludes(search.exactFolderMatches, search.brokenLink)
    /\ ~SeqIncludes(search.looseMatches, search.brokenLink)

\* C9 witness: the exact and the loose search both found the broken path
\* and a second file, the loose search a third one, and the cross-format
\* searches both found the same notebook.
C9_Witness ==
  /\ search.done
  /\ search.brokenLink = wsSelf
  /\ search.find[1].files = <<wsSelf, wsExact>>
  /\ search.find[2].files = <<wsExact, wsSelf, wsLoose>>
  /\ search.find[3].files = <<wsAltExact>>
  /\ search.find[4].files = <<wsAltExact, wsAltLoose>>
  /\ search.exactFolderMatches = <<wsExact, wsAltExact>>
  /\ search.looseMatches = <<wsLoose, wsAltLoose>>

-----------------------------------------------------------------------------
(* applyLinkRepair and fixBrokenLinks. *)

\* a file of the workspace as applyLinkRepair finds it: "ok", "unreadable"
\* (readFile rejects) or "readonly" (writeFile rejects), and its text
OnDisk(status, t) == [status |-> status, text |-> t]

\* applyLinkRepair(brokenLinkInfo, replacementPath) on file contents files:
\* [threw, replaced, wrote, files]
Outcome(threw, replaced, wrote, fl) ==
  [threw |-> threw, replaced |-> replaced, wrote |-> wrote, files |-> fl]

\* fs.writeFile(filePath, updatedContent): rejects on a read-only file
WriteBack(files, filePath, updatedContent) ==
  IF files[filePath].status = "readonly" THEN Outcome(TRUE, TRUE, FALSE, files)
  ELSE Outcome(FALSE, TRUE, TRUE, [files EXCEPT ![filePath] = OnDisk("ok", updatedContent)])

\* the two replacements of applyLinkRepair on the content: the relative
\* form of the broken path, else the path itself; then the write when
\* something was replaced
ReplaceInContent(files, filePath, content, brokenRelative, brokenNormalized, newRelativePath) ==
  IF Includes(content, brokenRelative)
    THEN WriteBack(files, filePath, ReplaceAll(content, brokenRelative, newRelativePath))
  ELSE IF Includes(content, brokenNormalized)
    THEN WriteBack(files, filePath, ReplaceAll(content, brokenNormalized, newRelativePath))
  ELSE Outcome(FALSE, FALSE, FALSE, files)

applyLinkRepair(files, brokenLinkInfo, replacementPath) ==
  IF files[brokenLinkInfo.filePath].status = "unreadable" THEN Outcome(TRUE, FALSE, FALSE, files)
  ELSE ReplaceInContent(files, brokenLinkInfo.filePath, files[brokenLinkInfo.filePath].text,
         ReplaceBackslash(PathRelative(PathDirname(brokenLinkInfo.filePath),
                                       brokenLinkInfo.brokenLink)),
         ReplaceBackslash(brokenLinkInfo.brokenLink),
         calculateRelativePath(brokenLinkInfo.filePath, replacementPath))

\* one round of the loop `for (const brokenLinkInfo of associatedLinks)`:
\* applyLinkRepair on the record, an exception caught and not counted
Counted(acc, brokenLinkInfo, r) ==
  [files |-> r.files,
   fixedCount |-> IF r.threw THEN acc.fixedCount ELSE acc.fixedCount + 1,
   calls |-> acc.calls + 1,
   wrote |-> IF r.wrote THEN Append(acc.wrote, brokenLinkInfo.filePath) ELSE acc.wrote]

ApplyToOne(acc, brokenLinkInfo, selectedReplacement) ==
  Counted(acc, brokenLinkInfo, applyLinkRepair(acc.files, brokenLinkInfo, selectedReplacement))

\* the loop from record i on
RECURSIVE ApplyToAll(_, _, _, _)
ApplyToAll(acc, associatedLinks, selectedReplacement, i) ==
  IF i > Len(associatedLinks) THEN acc
  ELSE ApplyToAll(ApplyToOne(acc, associatedLinks[i], selectedReplacement),
                  associatedLinks, selectedReplacement, i + 1)

ApplyRepairs(files, associatedLinks, selectedReplacement) ==
  ApplyToAll([files |-> files, fixedCount |-> 0, calls |-> 0, wrote |-> <<>>],
             associatedLinks, selectedReplacement, 1)

\* mutant of GroupOne: every record makes a group of its own
GroupOne_NoGrouping(groups, brokenLink) ==
  Append(groups, [brokenPath |-> brokenLink.brokenLink, associatedLinks |-> <<brokenLink>>])

\* brokenLinksByPath: the records grouped by broken path, the groups in the
\* order of the first record of each (a Map iterates in insertion order)
\* one round of the grouping loop
GroupOne(groups, brokenLink) ==
  LET key == brokenLink.brokenLink
      at == { g \in 1..Len(groups) : groups[g].brokenPath = key }
  IN IF at = {}
       THEN Append(groups, [brokenPath |-> key, associatedLinks |-> <<brokenLink>>])
       ELSE [g \in 1..Len(groups) |->
               IF g \in at
                 THEN [groups[g] EXCEPT !.associatedLinks = Append(@, brokenLink)]
                 ELSE groups[g]]

RECURSIVE GroupByPath(_, _, _)
GroupByPath(brokenLinks, i, groups) ==
  IF i > Len(brokenLinks) THEN groups
  ELSE GroupByPath(brokenLinks, i + 1, GroupOne(groups, brokenLinks[i]))

\* mutant of RepairBranch: a single loose match is taken whatever the exact
\* matches are
RepairBranch_SingleLooseAlways(exactFolderMatches, looseMatches) ==
  IF Len(exactFolderMatches) = 1 THEN "autoExact"
  ELSE IF Len(looseMatches) = 1 THEN "autoLoose"
  ELSE IF Len(exactFolderMatches) > 1
          \/ (Len(exactFolderMatches) = 0 /\ Len(looseMatches) > 1) THEN "interactive"
  ELSE "noCandidates"

\* the if / else-if chain of fixBrokenLinks on the two tiers
RepairBranch(exactFolderMatches, looseMatches) ==
  IF Len(exactFolderMatches) = 1 THEN "autoExact"
  ELSE IF Len(exactFolderMatches) = 0 /\ Len(looseMatches) = 1 THEN "autoLoose"
  ELSE IF Len(exactFolderMatches) > 1
          \/ (Len(exactFolderMatches) = 0 /\ Len(looseMatches) > 1) THEN "interactive"
  ELSE "noCandidates"

NoCandidates == [exactFolderMatches |-> <<>>, looseMatches |-> <<>>]

FixIdle ==
  [pc |-> "idle", queue |-> <<>>, cand |-> NoCandidates, searches |-> 0,
   totalFixed |-> 0, totalSkipped |-> 0, skipDetails |-> <<>>, summary |-> FALSE]

\* what the run did for one broken path; searches is the number of calls
\* of findSmartReplacementCandidates made for it so far
Logged(group, cand, prompted, selected, applied) ==
  [brokenPath |-> group.brokenPath,
   searches |-> fix.searches,
   exactFolderMatches |-> cand.exactFolderMatches,
   looseMatches |-> cand.looseMatches,
   prompted |-> prompted,
   selected |-> selected,
   calls |-> applied.calls,
   wrote |-> applied.wrote]

NothingApplied == [calls |-> 0, wrote |-> <<>>]
NoSelection == <<"null">>

\* the state of the loop after the iteration of the first group of the queue
AfterGroup(fixed, skipped, details) ==
  [fix EXCEPT !.pc = IF Len(fix.queue) > 1 THEN "search" ELSE "summary",
              !.queue = Tail(fix.queue),
              !.cand = NoCandidates,
              !.searches = 0,
              !.totalFixed = @ + fixed,
              !.totalSkipped = @ + skipped,
              !.skipDetails = @ \o details]

\* the skipDetails entry of a broken path without candidates
SkipNoCandidates(group, again) ==
  [type |-> "noCandidates", brokenLink |-> group.brokenPath,
   filesAffected |-> Len(group.associatedLinks),
   matches |-> again.exactFolderMatches \o again.looseMatches]

\* the end of an iteration that applied selectedReplacement to the records
\* of the group
FixApplied(group, prompted, selectedReplacement, applied) ==
  /\ fileText' = applied.files
  /\ fix' = AfterGroup(applied.fixedCount, 0, <<>>)
  /\ fixLog' = Append(fixLog, Logged(group, fix.cand, prompted, selectedReplacement, applied))

FixApply(group, prompted, selectedReplacement) ==
  FixApplied(group, prompted, selectedReplacement,
             ApplyRepairs(fileText, group.associatedLinks, selectedReplacement))

\* fixBrokenLinks up to the loop: findBrokenLinks on the index, the records
\* grouped; with no broken link the command ends at once
FixStart ==
  /\ fix.pc = "idle"
  /\ LET brokenLinks == findBrokenLinks(fs, linkIndex)
     IN fix' = IF Len(brokenLinks) = 0
                 THEN [fix EXCEPT !.pc = "done"]
                 ELSE [fix EXCEPT !.pc = "search",
                                  !.queue = GroupByPath(brokenLinks, 1, <<>>)]
  /\ UNCHANGED <<fileText, fixLog, ws, search, extractVars, probeVars, detectVars, pathVars, eventVars, lateVars>>

\* the candidate search for the next broken path
FixSearch ==
  /\ fix.pc = "search"
  /\ \E find \in SearchResults(ws, fix.queue[1].brokenPath) :
       fix' = [fix EXCEPT !.pc = "repair",
                          !.searches = @ + 1,
                          !.cand = findSmartReplacementCandidates(fix.queue[1].brokenPath, find)]
  /\ UNCHANGED <<fileText, fixLog, ws, search, extractVars, probeVars, detectVars, pathVars, eventVars, lateVars>>

\* the first branch: the single exact match is applied to every record of
\* the broken path
FixAutoExact ==
  /\ fix.pc = "repair"
  /\ RepairBranch(fix.cand.exactFolderMatches, fix.cand.looseMatches) = "autoExact"
  /\ FixApply(fix.queue[1], FALSE, fix.cand.exactFolderMatches[1])
  /\ UNCHANGED <<ws, search, extractVars, probeVars, detectVars, pathVars, eventVars, lateVars>>

\* the second branch: the single loose match is applied to every record of
\* the broken path
FixAutoLoose ==
  /\ fix.pc = "repair"
  /\ RepairBranch(fix.cand.exactFolderMatches, fix.cand.looseMatches) = "autoLoose"
  /\ FixApply(fix.queue[1], FALSE, fix.cand.looseMatches[1])
  /\ UNCHANGED <<ws, search, extractVars, probeVars, detectVars, pathVars, eventVars, lateVars>>

\* the interactive branch: showReplacementSelection resolves to one of the
\* candidates or to null
FixInteractive ==
  /\ fix.pc = "repair"
  /\ RepairBranch(fix.cand.exactFolderMatches, fix.cand.looseMatches) = "interactive"
  /\ LET group == fix.queue[1]
         allCandidates == fix.cand.exactFolderMatches \o fix.cand.looseMatches
     IN \/ /\ fix' = AfterGroup(0, Len(group.associatedLinks),
                       << [type |-> "userSkipped", brokenLink |-> group.brokenPath,
                           filesAffected |-> Len(group.associatedLinks)] >>)
           /\ fixLog' = Append(fixLog, Logged(group, fix.cand, TRUE, NoSelection, NothingApplied))
           /\ UNCHANGED fileText
        \/ \E i \in 1..Len(allCandidates) : FixApply(group, TRUE, allCandidates[i])
  /\ UNCHANGED <<ws, search, extractVars, probeVars, detectVars, pathVars, eventVars, lateVars>>

\* the last branch: the search is made once more for the report, and the
\* broken path is skipped
FixNoCandidates ==
  /\ fix.pc = "repair"
  /\ RepairBranch(fix.cand.exactFolderMatches, fix.cand.looseMatches) = "noCandidates"
  /\ \E find \in SearchResults(ws, fix.queue[1].brokenPath) :
       fix' = AfterGroup(0, Len(fix.queue[1].associatedLinks),
                << SkipNoCandidates(fix.queue[1],
                     findSmartReplacementCandidates(fix.queue[1].brokenPath, find)) >>)
  /\ fixLog' = Append(fixLog, [Logged(fix.queue[1], fix.cand, FALSE, NoSelection, NothingApplied)
                                 EXCEPT !.searches = @ + 1])
  /\ UNCHANGED <<fileText, ws, search, extractVars, probeVars, detectVars, pathVars, eventVars, lateVars>>

\* after the loop: the summary message
FixFinish ==
  /\ fix.pc = "summary"
  /\ fix' = [fix EXCEPT !.pc = "done", !.summary = TRUE]
  /\ UNCHANGED <<fileText, fixLog, ws, search, extractVars, probeVars, detectVars, pathVars, eventVars, lateVars>>

NextFix ==
  \/ FixStart
  \/ FixSearch
  \/ FixAutoExact
  \/ FixAutoLoose
  \/ FixInteractive
  \/ FixNoCandidates
  \/ FixFinish

-----------------------------------------------------------------------------
(* Specification of the repair flow: documents, a file system and a        *)
(* workspace are drawn, the documents are indexed as scanWorkspace does,   *)
(* and the Fix Broken Links command runs.                                  *)

\* the workspaces drawn for the repair flow: the content of the two
\* documents, what the file system holds at /x/f.md, and how docA reads
\* and writes
Scenario(a, b, abs, status) == [a |-> a, b |-> b, abs |-> abs, status |-> status]

FixScenarios ==
  \* one broken path, twice in one document
  { Scenario(Markdown(<<Link(tRel), Link(tRel)>>), Missing, "none", status) :
      status \in {"ok", "unreadable", "readonly"} }
  \* two broken paths, one of them in two documents
  \cup { Scenario(Markdown(<<Link(tRel), Link(tAbs)>>), Markdown(<<Link(tAbs)>>), "none", "ok") }
  \* one broken path beside a link that exists
  \cup { Scenario(Markdown(<<Link(tRel), Link(tAbs)>>), Missing, "file", "ok") }

\* the workspaces drawn for the searches of the repair flow
FixWsPool ==
  { {}, {wsExact, wsLoose}, {wsExact, wsAltExact, wsLoose} }

\* scanWorkspace from document i of the list on: parseFile and
\* Registry.update for each
RECURSIVE ScanFrom(_, _, _, _)
ScanFrom(files, found, i, index) ==
  IF i > Len(found) THEN index
  ELSE ScanFrom(files, found, i + 1, IndexSet(index, found[i], parseFile(files, found[i])))

InitFix ==
  /\ \E sc \in FixScenarios :
       /\ docs = [d \in DocPaths |-> IF d = docA THEN sc.a ELSE sc.b]
       /\ fs = [p \in LinkPaths |-> IF p = pathAbsF THEN sc.abs ELSE "none"]
       /\ fileText = [d \in DocPaths |->
                        OnDisk(IF d = docA THEN sc.status ELSE "ok", RenderDoc(docs[d].pieces))]
  /\ ws \in FixWsPool
  /\ linkIndex = ScanFrom(docs, <<docA, docB>>, 1, <<>>)
  /\ diskIndex = [exists |-> TRUE, index |-> linkIndex]
  /\ broken = NotDetected
  /\ fix = FixIdle
  /\ fixLog = <<>>
  /\ search = NotSearched

\* the repair variables of a behaviour that searches and repairs nothing
RepairIdle ==
  /\ ws = {}
  /\ search = NotSearched
  /\ fileText = [d \in DocPaths |-> OnDisk("ok", <<>>)]
  /\ fix = FixIdle
  /\ fixLog = <<>>

FixStill ==
  /\ fileText = [d \in DocPaths |-> OnDisk("ok", <<>>)]
  /\ fix = FixIdle
  /\ fixLog = <<>>

\* the tiers hold exactly one match to apply without asking
SingleMatch(e) ==
  \/ Len(e.exactFolderMatches) = 1
  \/ Len(e.exactFolderMatches) = 0 /\ Len(e.looseMatches) = 1

\* C10: for every broken path of a fixBrokenLinks run, a replacement is
\* applied without asking the user exactly when there is one exact match,
\* or no exact match and one loose match, and it is that match; with
\* several candidates otherwise the user is asked; with no candidate the
\* path is skipped as noCandidates and no document is written.
C10_RepairSelectionPolicy ==
  \A k \in 1..Len(fixLog) :
    LET e == fixLog[k]
        total == Len(e.exactFolderMatches) + Len(e.looseMatches)
    IN /\ (e.calls > 0 /\ ~e.prompted) <=> SingleMatch(e)
       /\ (SingleMatch(e) /\ Len(e.exactFolderMatches) = 1) => e.selected = e.exactFolderMatches[1]
       /\ (SingleMatch(e) /\ Len(e.exactFolderMatches) = 0) => e.selected = e.looseMatches[1]
       /\ (~SingleMatch(e) /\ total > 0) => e.prompted
       /\ total = 0 =>
            /\ ~e.prompted
            /\ e.calls = 0
            /\ e.wrote = <<>>
            /\ \E s \in 1..Len(fix.skipDetails) :
                 /\ fix.skipDetails[s].type = "noCandidates"
                 /\ fix.skipDetails[s].brokenLink = e.brokenPath

\* C10 witness: a run that rewrote a document with the single exact match
\* of one broken path without asking, although there were loose matches
\* too, and found no candidate for another broken path.
C10_Witness ==
  /\ fix.pc = "done"
  /\ \E k \in 1..Len(fixLog) :
       /\ ~fixLog[k].prompted
       /\ Len(fixLog[k].exactFolderMatches) = 1
       /\ Len(fixLog[k].looseMatches) >= 1
       /\ fixLog[k].wrote # <<>>
  /\ \E k \in 1..Len(fixLog) :
       Len(fixLog[k].exactFolderMatches) + Len(fixLog[k].looseMatches) = 0

-----------------------------------------------------------------------------
(* Specification of calculateRelativePath: a document path and a target    *)
(* path are drawn and the relative path between them is computed.          *)

\* the directories of the paths drawn
relDirs ==
  { <<"/">>, <<"/", "w", "/">>, <<"/", "w", "/", "d", "/">>,
    <<"/", "w", "/", "d", "/", "e", "/">>, <<"/", "x", "/">> }

\* the documents drawn: a.md and b.md in each directory
RelFromPool == { d \o n : d \in relDirs, n \in { <<"a", ".", "m", "d">>, <<"b", ".", "m", "d">> } }

\* the targets drawn: a file in each directory, a file whose name holds a
\* backslash (a legal character of a POSIX file name), each directory
\* itself and the document a.md
RelToPool ==
  { d \o n : d \in relDirs,
             n \in { <<"f", ".", "m", "d">>, <<"x", "\\", "y", ".", "m", "d">>, <<"a", ".", "m", "d">> } }
  \cup { IF Len(d) = 1 THEN d ELSE SubSeq(d, 1, Len(d) - 1) : d \in relDirs }

NotCalculated == [done |-> FALSE, from |-> <<>>, to |-> <<>>, v |-> <<>>]
NotUpdated ==
  [done |-> FALSE, pieces |-> <<>>, oldDir |-> <<>>, newDir |-> <<>>,
   threw |-> FALSE, text |-> <<>>]

InitRelative ==
  /\ rel = NotCalculated
  /\ upd = NotUpdated

\* a call calculateRelativePath(fromFile, toFile)
RunCalculateRelativePath(fromFile, toFile) ==
  /\ rel' = [done |-> TRUE, from |-> fromFile, to |-> toFile,
             v |-> calculateRelativePath(fromFile, toFile)]
  /\ UNCHANGED <<upd, extractVars, probeVars, detectVars, repairVars, eventVars, lateVars>>

NextRelative ==
  \E fromFile \in RelFromPool, toFile \in RelToPool : RunCalculateRelativePath(fromFile, toFile)

\* the path variables of a behaviour that computes no relative path and
\* rewrites no link
PathIdle ==
  /\ rel = NotCalculated
  /\ upd = NotUpdated

\* C11: the relative path computed from document A to target B, resolved
\* against the directory of A, is B.
C11_RelativePathRoundTrip ==
  rel.done => PathResolve(PathDirname(rel.from), rel.v) = rel.to

\* the round trip holds for every target without a backslash in its path
RoundTripWithoutBackslash ==
  (rel.done /\ ~Includes(rel.to, <<"\\">>)) =>
    PathResolve(PathDirname(rel.from), rel.v) = rel.to

\* the segments of an absolute normalized path
SegmentsOf(p) == SelectSeq(SplitSlash(p), LAMBDA x : x # <<>>)

\* the relative path as the claim describes it: one ".." for each level of
\* the directory of `from` below the common ancestor, then the segments of
\* `to` below it
ClimbThenDescend(from, to) ==
  LET f == SegmentsOf(PathDirname(from))
      t == SegmentsOf(to)
      c == CommonPrefix(f, t, 1)
  IN [i \in 1..(Len(f) - c) |-> <<".", ".">>] \o SubSeq(t, c + 1, Len(t))

\* C12: calculateRelativePath returns, separated by forward slashes, one
\* ".." per level to climb from the directory of `from`, then the
\* descending segments of `to`: the bare file name in the same directory,
\* no backslash anywhere.
C12_ClimbThenDescendWithSlashes ==
  rel.done =>
    /\ SplitSlash(rel.v) = (IF ClimbThenDescend(rel.from, rel.to) = <<>> THEN << <<>> >>
                            ELSE ClimbThenDescend(rel.from, rel.to))
    /\ ~Includes(rel.v, <<"\\">>)

\* the shape holds for every target without a backslash in its path
ClimbThenDescendWithoutBackslash ==
  (rel.done /\ ~Includes(rel.to, <<"\\">>)) =>
    SplitSlash(rel.v) = (IF ClimbThenDescend(rel.from, rel.to) = <<>> THEN << <<>> >>
                         ELSE ClimbThenDescend(rel.from, rel.to))

-----------------------------------------------------------------------------
(* updateMarkdownLinks of parser.ts. *)

\* String.prototype.replace(pat, rep) with a string pattern: the first
\* occurrence of pat is replaced (rep holds no $ in the documents drawn)
RECURSIVE ReplaceFirst(_, _, _)
ReplaceFirst(s, pat, rep) ==
  IF Len(s) < Len(pat) THEN s
  ELSE IF StartsWith(s, pat) THEN rep \o From(s, Len(pat) + 1)
  ELSE <<s[1]>> \o ReplaceFirst(Tail(s), pat, rep)

\* mutant of isRelativeLink: an absolute path counts as relative
isRelativeLink_AbsoluteToo(link) ==
  /\ ~StartsWith(link, <<"h","t","t","p",":","/","/">>)
  /\ ~StartsWith(link, <<"h","t","t","p","s",":","/","/">>)
  /\ ~StartsWith(link, <<"#">>)
  /\ ~StartsWith(link, <<"m","a","i","l","t","o",":">>)
  /\ ~StartsWith(link, <<"j","a","v","a","s","c","r","i","p","t",":">>)

\* isRelativeLink of updateMarkdownLinks
isRelativeLink(link) ==
  /\ ~IsAbsolute(link)
  /\ ~StartsWith(link, <<"h","t","t","p",":","/","/">>)
  /\ ~StartsWith(link, <<"h","t","t","p","s",":","/","/">>)
  /\ ~StartsWith(link, <<"#">>)
  /\ ~StartsWith(link, <<"m","a","i","l","t","o",":">>)
  /\ ~StartsWith(link, <<"j","a","v","a","s","c","r","i","p","t",":">>)

NoMatch == [ok |-> FALSE, openingBrace |-> <<>>, link |-> <<>>, closingBrace |-> <<>>, end |-> 0]

\* the tail (<)?([^>)]+)(>)?\) of the regular expression from position k
\* of s on, k being after the "(":  the "<" is taken when a non-empty run
\* follows it, the run [^>)]+ is the longest one, then ">" if it is there,
\* then ")"
RegexTargetAt(s, k, lt, e) ==
  IF e = 0 \/ e = (IF lt THEN k + 1 ELSE k) THEN NoMatch
  ELSE IF s[e] = ")" THEN
    [ok |-> TRUE, openingBrace |-> IF lt THEN <<"<">> ELSE <<>>,
     link |-> SubSeq(s, IF lt THEN k + 1 ELSE k, e - 1), closingBrace |-> <<>>, end |-> e]
  ELSE IF e + 1 <= Len(s) /\ s[e + 1] = ")" THEN
    [ok |-> TRUE, openingBrace |-> IF lt THEN <<"<">> ELSE <<>>,
     link |-> SubSeq(s, IF lt THEN k + 1 ELSE k, e - 1), closingBrace |-> <<">">>, end |-> e + 1]
  ELSE NoMatch

\* whether the "<" at position k opens the target: a character other than
\* ">" and ")" follows it
TakesAngle(s, k) ==
  /\ k + 1 <= Len(s)
  /\ s[k] = "<"
  /\ s[k + 1] \notin {">", ")"}

RegexAfterParen(s, k, lt) ==
  RegexTargetAt(s, k, lt, IndexOfAny(s, {">", ")"}, IF lt THEN k + 1 ELSE k))

\* the head \[([^\]]*)\]\( from the "[" at position i of s: j is the first
\* "]" after it
RegexAfterLabel(s, j) ==
  IF j = 0 \/ j + 2 > Len(s) \/ s[j + 1] # "(" THEN NoMatch
  ELSE RegexAfterParen(s, j + 2, TakesAngle(s, j + 2))

\* the match of /\[([^\]]*)\]\((<)?([^>)]+)(>)?\)/ that starts with the "["
\* at position i of s
RegexLinkAt(s, i) == RegexAfterLabel(s, IndexOfAny(s, {"]"}, i + 1))

NoRewrite(match) == [threw |-> FALSE, text |-> match]

\* the relative branch of the callback: normalizeLink on oldDir, the
\* relative path from dummyFile, angle brackets when it holds a space,
\* and the first occurrence of linkPart in the match replaced
RewriteTo(match, linkPart, target, newDir) ==
  IF ~target.ok THEN [threw |-> TRUE, text |-> <<>>]
  ELSE LET newLink == calculateRelativePath(PathResolve(newDir, <<"d","u","m","m","y",".","m","d">>),
                                            target.v)
       IN [threw |-> FALSE,
           text |-> ReplaceFirst(match, linkPart,
                      IF Includes(newLink, <<" ">>) THEN <<"<">> \o newLink \o <<">">>
                      ELSE newLink)]

\* the callback of text.replace(regex, ...) on one match m
RewriteMatch(match, m, oldDir, newDir) ==
  IF isRelativeLink(m.link)
    THEN RewriteTo(match, m.openingBrace \o m.link \o m.closingBrace,
                   normalizeLink(m.link, oldDir), newDir)
    ELSE NoRewrite(match)

\* one step of text.replace(regex, callback) at position st.next of s: a
\* match m that starts there is replaced by what the callback returns,
\* any other character is copied
ReplaceStep(s, st, m, oldDir, newDir) ==
  IF st.threw THEN [st EXCEPT !.next = Len(s) + 1]
  ELSE IF ~m.ok THEN [st EXCEPT !.text = Append(@, s[st.next]), !.next = @ + 1]
  ELSE LET r == RewriteMatch(SubSeq(s, st.next, m.end), m, oldDir, newDir)
       IN [threw |-> r.threw, text |-> st.text \o r.text, next |-> m.end + 1]

\* where the regular expression can start at position i: at a "[", or for
\* the image expression at a "!" followed by "["
StartsMatch(s, i, image) ==
  IF image THEN s[i] = "!" /\ i + 1 <= Len(s) /\ s[i + 1] = "["
  ELSE s[i] = "["

\* updateInlineLinks(regex): text.replace(regex, callback), st = [threw,
\* text, next] being the result for the text before position next
RECURSIVE updateInlineLinks(_, _, _, _, _)
updateInlineLinks(s, st, image, oldDir, newDir) ==
  IF st.next > Len(s) THEN [threw |-> st.threw, text |-> st.text]
  ELSE updateInlineLinks(s,
         ReplaceStep(s, st,
           IF StartsMatch(s, st.next, image)
             THEN RegexLinkAt(s, IF image THEN st.next + 1 ELSE st.next)
             ELSE NoMatch,
           oldDir, newDir),
         image, oldDir, newDir)

ReplaceStart == [threw |-> FALSE, text |-> <<>>, next |-> 1]

\* the second pass, on the text the first pass returned
ImagePass(first, oldDir, newDir) ==
  IF first.threw THEN first
  ELSE updateInlineLinks(first.text, ReplaceStart, TRUE, oldDir, newDir)

\* updateMarkdownLinks(text, oldDir, newDir): [threw, text]
updateMarkdownLinks(t, oldDir, newDir) ==
  IF oldDir = newDir THEN [threw |-> FALSE, text |-> t]
  ELSE ImagePass(updateInlineLinks(t, ReplaceStart, FALSE, oldDir, newDir), oldDir, newDir)

-----------------------------------------------------------------------------
(* Specification of updateMarkdownLinks: a document of links and images,   *)
(* one on each line, and two directories are drawn, and the links are      *)
(* rewritten for a move of the document from the one to the other.         *)

tSelfLabel == <<"f",".","m","d">>
dirDeep == <<"/","w","/","e","/","g">>
MoveDirs == {dirDocs, dirRoot, dirDeep}

\* an occurrence as written: [label](target), ![label](target) or
\* [label](<target>)
Labelled(kind, label, target, angle) ==
  [kind |-> kind, label |-> label, target |-> target, angle |-> angle]

\* the occurrences drawn: links and images with label t and each kind of
\* target, a target in angle brackets, and a link whose label is its target
MovePiecePool ==
  { Labelled("link", <<"t">>, t, FALSE) :
      t \in {tRel, tUp, tEnc, tBadEnc, tAbs, tHttps, tHttp, tAnchor, tMailto, tScript} }
  \cup { Labelled("image", <<"t">>, t, FALSE) : t \in {tRel, tAbs, tHttps} }
  \cup { Labelled("link", <<"t">>, t, TRUE) : t \in {tSpace, tAbs} }
  \cup { Labelled("link", tSelfLabel, tRel, FALSE) }

\* the markdown text of one occurrence
Written(p) ==
  (IF p.kind = "image" THEN <<"!">> ELSE <<>>)
  \o <<"[">> \o p.label \o <<"]", "(">>
  \o (IF p.angle THEN <<"<">> \o p.target \o <<">">> ELSE p.target)
  \o <<")">>

\* the markdown text of a document: one occurrence on each line
WrittenDoc(ps) == Join([i \in 1..Len(ps) |-> Written(ps[i])], <<"\n">>)

\* String.prototype.split('\n')
RECURSIVE SplitLines(_)
SplitLines(s) ==
  LET i == IndexOfAny(s, {"\n"}, 1) IN
  IF i = 0 THEN <<s>>
  ELSE <<SubSeq(s, 1, i - 1)>> \o SplitLines(From(s, i + 1))

InitUpdate ==
  /\ rel = NotCalculated
  /\ upd = NotUpdated

Updated(ps, oldDir, newDir, r) ==
  [done |-> TRUE, pieces |-> ps, oldDir |-> oldDir, newDir |-> newDir,
   threw |-> r.threw, text |-> r.text]

\* a call updateMarkdownLinks(text, oldDir, newDir)
RunUpdateMarkdownLinks(ps, oldDir, newDir) ==
  /\ ~upd.done
  /\ upd' = Updated(ps, oldDir, newDir, updateMarkdownLinks(WrittenDoc(ps), oldDir, newDir))
  /\ UNCHANGED <<rel, extractVars, probeVars, detectVars, repairVars, eventVars, lateVars>>

NextUpdate ==
  \E ps \in SeqsUpTo(MovePiecePool, MaxLinks), oldDir \in MoveDirs, newDir \in MoveDirs :
    RunUpdateMarkdownLinks(ps, oldDir, newDir)

\* the call returned a text with a line for each occurrence
UpdateReturned ==
  /\ upd.done
  /\ ~upd.threw
  /\ Len(upd.pieces) > 0
  /\ Len(SplitLines(upd.text)) = Len(upd.pieces)

\* a target updateMarkdownLinks is to rewrite: a relative file reference
IsPlainRelative(t) ==
  /\ ~IsAbsolute(t)
  /\ ~isUrlLink(t)
  /\ ~IsUnsupported(t)

\* C13: every link and image with a plain relative target, read in the
\* returned text from newDir, resolves to the path the original resolves
\* to from oldDir.
C13_RewrittenTargetPreserved ==
  (UpdateReturned /\ upd.oldDir # upd.newDir) =>
    \A k \in 1..Len(upd.pieces) :
      IsPlainRelative(upd.pieces[k].target) =>
        extractMarkdownLinks(SplitLines(upd.text)[k], upd.newDir)
          = extractMarkdownLinks(Written(upd.pieces[k]), upd.oldDir)

\* the targets of C13 without the two cases that fail: images, and links
\* whose label holds the text of their target
LinkWithOtherLabel(p) ==
  /\ p.kind = "link"
  /\ IsPlainRelative(p.target)
  /\ ~Includes(p.label, p.target)

\* such a link keeps its target
RewrittenLinkPreserved ==
  (UpdateReturned /\ upd.oldDir # upd.newDir) =>
    \A k \in 1..Len(upd.pieces) :
      LinkWithOtherLabel(upd.pieces[k]) =>
        extractMarkdownLinks(SplitLines(upd.text)[k], upd.newDir)
          = extractMarkdownLinks(Written(upd.pieces[k]), upd.oldDir)

-----------------------------------------------------------------------------
(* Specification of the Registry: a Registry is constructed over an index  *)
(* file, and update and remove are called in any order.                    *)

\* the link lists handed to update: empty, with duplicates, in both orders
RegistryLinkPool ==
  { <<>>, <<pathDocsF>>, <<pathDocsF, pathDocsF>>, <<pathDocsF, pathRootF>>,
    <<pathRootF, pathDocsF, pathRootF>> }

\* the index files a Registry is constructed over
RegistryDiskPool ==
  { NoDiskIndex,
    [exists |-> TRUE, index |-> << [key |-> docB, links |-> <<pathRootF>>] >>] }

\* loadFromDisk: the index of the file when it exists and can be read
loadFromDisk(disk, readable) ==
  IF disk.exists /\ readable THEN disk.index ELSE <<>>

\* getAll()[d]: the entry of a document
EntryOf(index, d) ==
  LET i == IndexOfKey(index, d, 1)
  IN IF i = 0 THEN [present |-> FALSE, links |-> <<>>]
     ELSE [present |-> TRUE, links |-> index[i].links]

\* the entry a document has before any operation on it
Loaded(entry) ==
  [op |-> "none", present |-> entry.present, links |-> entry.links, replaced |-> FALSE]

NoOps == [d \in DocPaths |-> Loaded(EntryOf(<<>>, d))]

InitRegistry ==
  /\ diskIndex \in RegistryDiskPool
  /\ \E readable \in BOOLEAN : linkIndex = loadFromDisk(diskIndex, readable)
  /\ lastOp = [d \in DocPaths |-> Loaded(EntryOf(linkIndex, d))]
  /\ docs = [d \in DocPaths |-> Missing]
  /\ broken = NotDetected

\* Registry.update(uri, links)
RegistryUpdate(d, links) ==
  /\ linkIndex' = IndexSet(linkIndex, d, links)
  /\ PersistToDisk(linkIndex')
  /\ lastOp' = [lastOp EXCEPT ![d] =
                  [op |-> "update", present |-> TRUE, links |-> links,
                   replaced |-> @.present /\ @.links # links]]
  /\ UNCHANGED <<docs, broken, fs, probe, extractVars, repairVars, pathVars,
                 timers, debounceTimeouts, inflight, hist, ren, lateVars>>

\* Registry.remove(uri), the operations recorded
RegistryRemoveOf(d) ==
  /\ linkIndex' = IndexDelete(linkIndex, d)
  /\ PersistToDisk(linkIndex')
  /\ lastOp' = [lastOp EXCEPT ![d] =
                  [op |-> "remove", present |-> FALSE, links |-> <<>>, replaced |-> FALSE]]
  /\ UNCHANGED <<docs, broken, fs, probe, extractVars, repairVars, pathVars,
                 timers, debounceTimeouts, inflight, hist, ren, lateVars>>

NextRegistry ==
  \/ \E d \in DocPaths, links \in RegistryLinkPool : RegistryUpdate(d, links)
  \/ \E d \in DocPaths : RegistryRemoveOf(d)

-----------------------------------------------------------------------------
(* Claims about the Registry. *)

\* C15: after any sequence of update and remove, the index has an entry for
\* a document iff the last operation on it was an update (or none was made
\* and the index file had one), the entry is the list of that update,
\* duplicates and order kept, and each key occurs once; so an operation on
\* one document leaves the entries of the others, and remove of an absent
\* document changes nothing
C15_IndexIsLastUpdate ==
  \A d \in DocPaths :
    /\ EntryOf(linkIndex, d) = [present |-> lastOp[d].present, links |-> lastOp[d].links]
    /\ lastOp[d].op = "update" => EntryOf(linkIndex, d).present
    /\ lastOp[d].op = "remove" => ~EntryOf(linkIndex, d).present
    /\ Cardinality({ i \in 1..Len(linkIndex) : linkIndex[i].key = d }) <= 1

\* an update has replaced a different list by one with duplicates, the other
\* document removed while absent, and the index has the one entry
C15_Witness ==
  /\ lastOp[docA].op = "update"
  /\ lastOp[docA].replaced
  /\ lastOp[docA].links = <<pathRootF, pathDocsF, pathRootF>>
  /\ lastOp[docB].op = "remove"
  /\ Len(linkIndex) = 1

-----------------------------------------------------------------------------
(* The file watcher of activate (extension.ts): onDidCreate, onDidChange   *)
(* with its debounce, onDidDelete, and the calls of handleFileUpdate they  *)
(* start.  A timeout is [id, key, left]: the path it was set for and the   *)
(* milliseconds until it is due.                                           *)

\* the delay of the debounce
DebounceMs == 500

\* an identifier no scheduled timeout has
FreeId(ts) == CHOOSE i \in 1..(Len(ts) + 1) : \A k \in 1..Len(ts) : ts[k].id # i

\* clearTimeout(id)
clearTimeout(ts, id) == SelectSeq(ts, LAMBDA t : t.id # id)

\* mutant of ClearPending: the timeout of an earlier change is left to run
ClearPending_Never(ts, map, key) == ts

\* if (debounceTimeouts.has(key)) clearTimeout(debounceTimeouts.get(key))
ClearPending(ts, map, key) ==
  IF map[key] # 0 THEN clearTimeout(ts, map[key]) ELSE ts

\* setTimeout(callback, DebounceMs) for a path, and debounceTimeouts.set
Debounced(ts, map, key) ==
  LET id == FreeId(ts)
  IN [timers |-> Append(ts, [id |-> id, key |-> key, left |-> DebounceMs]),
      map |-> [map EXCEPT ![key] = id]]

\* a call handleFileUpdate(uri) that awaits the readFile of parseFile
Reading(uri) == [uri |-> uri, stage |-> "reading", file |-> Missing]

\* the timeouts that are due after ms milliseconds, and the others
DueAfter(ts, ms) == SelectSeq(ts, LAMBDA t : t.left = ms)
LeftAfter(ts, ms) ==
  LET rest == SelectSeq(ts, LAMBDA t : t.left > ms)
  IN [k \in 1..Len(rest) |-> [rest[k] EXCEPT !.left = @ - ms]]

\* the calls of handleFileUpdate the callbacks of the due timeouts start
RECURSIVE StartedBy(_, _)
StartedBy(due, k) ==
  IF k > Len(due) THEN EmptyBag
  ELSE SetToBag({Reading(due[k].key)}) (+) StartedBy(due, k + 1)

\* how many of the due timeouts were set for a path
DueFor(due, d) == Cardinality({ k \in 1..Len(due) : due[k].key = d })

\* the rest of parseFile once readFile has settled, on what it read
ParseRead(call) == parseFile([docs EXCEPT ![call.uri] = call.file], call.uri)

-----------------------------------------------------------------------------
(* Specification of the watcher: files are created, changed and deleted,   *)
(* time passes, and the reads and the calls in flight proceed in any       *)
(* order.  The index file is written at each Registry operation.           *)

\* the calls of handleFileUpdate in flight at a time
MaxInflight == 2

\* the time steps
Delays == {250, DebounceMs}

\* the contents files are created and changed with
WatchFilePool == { Markdown(<<Link(tAbs), Link(tRel)>>) }

\* what is recorded for a path: whether its delete event was the last event
\* processed for it; its burst of change events (consecutive events less
\* than DebounceMs apart), "open" until DebounceMs have passed since the
\* last event of it; the time since that event; whether the burst had
\* several events; the calls of handleFileUpdate timeouts have made for the
\* path since the burst began, and the time since the last event at the
\* last of them
NoHistory ==
  [deleted |-> FALSE, burst |-> "none", age |-> 0, repeated |-> FALSE,
   reparses |-> 0, firedAt |-> 0]

Changed(h) ==
  IF h.burst = "open"
  THEN [h EXCEPT !.deleted = FALSE, !.age = 0, !.repeated = TRUE]
  ELSE [NoHistory EXCEPT !.burst = "open"]

Elapsed(h, ms, fired) ==
  LET age == IF h.burst = "open" THEN h.age + ms ELSE h.age
  IN [h EXCEPT !.age = age,
               !.burst = IF h.burst = "open" /\ age >= DebounceMs THEN "closed" ELSE @,
               !.reparses = @ + fired,
               !.firedAt = IF fired > 0 THEN age ELSE @]

InitWatch ==
  /\ docs = [d \in DocPaths |-> Missing]
  /\ linkIndex = <<>>
  /\ diskIndex = NoDiskIndex
  /\ broken = NotDetected
  /\ timers = <<>>
  /\ debounceTimeouts = [d \in DocPaths |-> 0]
  /\ inflight = EmptyBag
  /\ hist = [d \in DocPaths |-> NoHistory]

\* the file is created; onDidCreate: handleFileUpdate(uri) is called
OnDidCreate(d, file) ==
  /\ docs[d] = Missing
  /\ BagCardinality(inflight) < MaxInflight
  /\ docs' = [docs EXCEPT ![d] = file]
  /\ inflight' = inflight (+) SetToBag({Reading(d)})
  /\ hist' = [hist EXCEPT ![d].deleted = FALSE]
  /\ UNCHANGED <<linkIndex, diskIndex, timers, debounceTimeouts, broken, fs, probe,
                 extractVars, repairVars, pathVars, lastOp, ren, lateVars>>

\* the file is changed; onDidChange: the timeout of the path is cleared and
\* a new one is set
OnDidChange(d, file) ==
  /\ docs[d] # Missing
  /\ docs' = [docs EXCEPT ![d] = file]
  /\ LET set == Debounced(ClearPending(timers, debounceTimeouts, d), debounceTimeouts, d)
     IN /\ timers' = set.timers
        /\ debounceTimeouts' = set.map
  /\ hist' = [hist EXCEPT ![d] = Changed(@)]
  /\ UNCHANGED <<linkIndex, diskIndex, inflight, broken, fs, probe,
                 extractVars, repairVars, pathVars, lastOp, ren, lateVars>>

\* the file is deleted; onDidDelete: registry.remove(uri)
OnDidDelete(d) ==
  /\ docs[d] # Missing
  /\ docs' = [docs EXCEPT ![d] = Missing]
  /\ linkIndex' = IndexDelete(linkIndex, d)
  /\ diskIndex' = [exists |-> TRUE, index |-> linkIndex']
  /\ hist' = [hist EXCEPT ![d].deleted = TRUE]
  /\ UNCHANGED <<timers, debounceTimeouts, inflight, broken, fs, probe,
                 extractVars, repairVars, pathVars, lastOp, ren, lateVars>>

\* ms milliseconds pass, no timeout left behind; the callbacks of the
\* timeouts then due run: handleFileUpdate(uri) is called and
\* debounceTimeouts.delete(key)
Elapse(ms) ==
  /\ \A k \in 1..Len(timers) : timers[k].left >= ms
  /\ BagCardinality(inflight) + Len(DueAfter(timers, ms)) <= MaxInflight
  /\ timers' = LeftAfter(timers, ms)
  /\ inflight' = inflight (+) StartedBy(DueAfter(timers, ms), 1)
  /\ debounceTimeouts' =
       [d \in DocPaths |-> IF DueFor(DueAfter(timers, ms), d) > 0 THEN 0
                           ELSE debounceTimeouts[d]]
  /\ hist' = [d \in DocPaths |-> Elapsed(hist[d], ms, DueFor(DueAfter(timers, ms), d))]
  /\ hist' # hist
  /\ UNCHANGED <<docs, linkIndex, diskIndex, broken, fs, probe,
                 extractVars, repairVars, pathVars, lastOp, ren, lateVars>>

\* vscode.workspace.fs.readFile of a call in flight reads the file
ReadFile(call) ==
  /\ call.stage = "reading"
  /\ inflight' = (inflight (-) SetToBag({call}))
                    (+) SetToBag({[call EXCEPT !.stage = "read", !.file = docs[call.uri]]})
  /\ UNCHANGED <<docs, linkIndex, diskIndex, timers, debounceTimeouts, hist, broken, fs,
                 probe, extractVars, repairVars, pathVars, lastOp, ren, lateVars>>

\* the call resumes: parseFile returns the links of what was read, or [],
\* and registry.update(uri, links)
Resume(call) ==
  /\ call.stage = "read"
  /\ linkIndex' = IndexSet(linkIndex, call.uri, ParseRead(call))
  /\ diskIndex' = [exists |-> TRUE, index |-> linkIndex']
  /\ inflight' = inflight (-) SetToBag({call})
  /\ UNCHANGED <<docs, timers, debounceTimeouts, hist, broken, fs, probe,
                 extractVars, repairVars, pathVars, lastOp, ren, lateVars>>

NextWatch ==
  \/ \E d \in DocPaths, file \in WatchFilePool : OnDidCreate(d, file)
  \/ \E d \in DocPaths, file \in WatchFilePool : OnDidChange(d, file)
  \/ \E d \in DocPaths : OnDidDelete(d)
  \/ \E ms \in Delays : Elapse(ms)
  \/ \E call \in BagToSet(inflight) : ReadFile(call)
  \/ \E call \in BagToSet(inflight) : Resume(call)

-----------------------------------------------------------------------------
(* Claims about the watcher. *)

\* C16: once the delete event of a document has been processed, and no
\* create or change event for it since, the index has no entry for it
C16_NoEntryAfterDelete ==
  \A d \in DocPaths : hist[d].deleted => ~EntryOf(linkIndex, d).present

\* the timeouts scheduled for a path
TimersOf(d) == SelectSeq(timers, LAMBDA t : t.key = d)

\* C17: for each path, while its burst of change events is open no timeout
\* has called handleFileUpdate for it, and one timeout is scheduled for it,
\* due DebounceMs after the last event of the burst whatever happens on
\* other paths; once DebounceMs have passed since that event exactly one
\* call has been made, at DebounceMs, and no timeout is scheduled for it
C17_OneReparsePerBurst ==
  \A d \in DocPaths :
    /\ Len(TimersOf(d)) <= 1
    /\ hist[d].burst = "open" =>
         /\ hist[d].reparses = 0
         /\ Len(TimersOf(d)) = 1
         /\ TimersOf(d)[1].left = DebounceMs - hist[d].age
         /\ debounceTimeouts[d] = TimersOf(d)[1].id
    /\ hist[d].burst = "closed" =>
         /\ hist[d].reparses = 1
         /\ hist[d].firedAt = DebounceMs
         /\ TimersOf(d) = <<>>
    /\ hist[d].burst = "none" => TimersOf(d) = <<>> /\ hist[d].reparses = 0

\* a burst of several events of one path has had its one call while the
\* timeout of a later event of the other path is still scheduled
C17_Witness ==
  /\ hist[docA].burst = "closed"
  /\ hist[docA].repeated
  /\ hist[docA].reparses = 1
  /\ hist[docB].burst = "open"
  /\ hist[docB].age = 250
  /\ Len(TimersOf(docB)) = 1

-----------------------------------------------------------------------------
(* Claims about the count of fixed links of fixBrokenLinks. *)

\* the calls of applyLinkRepair of a run that wrote their document
RECURSIVE WritesLogged(_, _)
WritesLogged(log, k) ==
  IF k > Len(log) THEN 0 ELSE Len(log[k].wrote) + WritesLogged(log, k + 1)

\* C20: a call of applyLinkRepair that finds neither form of the broken
\* path in the document does not write it and is not counted among the
\* fixed links: the links counted as fixed are those of the calls that
\* wrote their document
C20_NotAppliedNotCounted ==
  fix.totalFixed = WritesLogged(fixLog, 1)

-----------------------------------------------------------------------------
(* updateReferences and the onDidRenameFiles handler of activate           *)
(* (extension.ts).                                                         *)

\* a path without a file
NoFile == OnDisk("missing", <<>>)

\* findFiles('**/*.{md,ipynb}'): the Markdown and notebook files on disk
RenameFound(files) ==
  { p \in DOMAIN files :
      /\ files[p] # NoFile
      /\ EndsWith(p, <<".", "m", "d">>) \/ EndsWith(p, <<".", "i", "p", "y", "n", "b">>) }

\* one round of the loop of updateReferences: the text of the file with
\* every occurrence of the relative form of oldPath replaced by that of
\* newPath, unless the two forms are equal or the text does not change
ReferencesIn(fsPath, content, oldPath, newPath) ==
  LET normOld == ReplaceBackslash(PathRelative(PathDirname(fsPath), oldPath))
      normNew == ReplaceBackslash(PathRelative(PathDirname(fsPath), newPath))
  IN IF normOld = normNew THEN content ELSE ReplaceAll(content, normOld, normNew)

\* updateReferences(oldPath, newPath): the files after it; a file that
\* cannot be read or written is left as it is (the catch logs the error)
updateReferences(files, oldPath, newPath) ==
  [p \in DOMAIN files |->
     IF p \in RenameFound(files) /\ files[p].status = "ok"
     THEN OnDisk("ok", ReferencesIn(p, files[p].text, oldPath, newPath))
     ELSE files[p]]

\* parseFile(uri) on the files as texts
ParseText(files, path) ==
  IF files[path].status \in {"missing", "unreadable"} THEN <<>>
  ELSE IF EndsWith(path, <<".", "m", "d">>) THEN
    CatchReturnsEmpty(extractMarkdownLinks(files[path].text, PathDirname(path))).links
  ELSE <<>>

-----------------------------------------------------------------------------
(* Specification of the rename handler: a workspace of two documents and a *)
(* third file is drawn, the third file is renamed or moved, and the        *)
(* handler runs.                                                           *)

renSpaceF == <<"/","w","/","d","/","a"," ","b",".","m","d">>
renInPlace == <<"/","w","/","d","/","g",".","m","d">>
dirSide == <<"/","w","/","e">>

\* the file that is renamed
RenameOldPool == {pathDocsF, renSpaceF}

\* where it goes: another name in its directory, the directory above, a
\* directory beside
RenameTargets(old) ==
  { renInPlace,
    dirRoot \o <<"/">> \o PathBasename(old),
    dirSide \o <<"/">> \o PathBasename(old) }

RenamePaths == DocPaths \cup RenameOldPool \cup UNION { RenameTargets(o) : o \in RenameOldPool }

tDot == <<".","/","f",".","m","d">>
tUpDown == <<".",".","/","d","/","f",".","m","d">>
tDown == <<"d","/","f",".","m","d">>
tDotDown == <<".","/","d","/","f",".","m","d">>
tDownEnc == <<"d","/","a","%","2","0","b",".","m","d">>
tSibling == <<"a",".","m","d">>

\* the documents of /w/d: links to the file as written plainly, with ./,
\* with ../ segments, percent-encoded and in angle brackets, beside others
RenamePoolA ==
  { <<Link(tRel)>>, <<Link(tDot), Link(tAbs)>>, <<Link(tUpDown)>>, <<Image(tRel), Link(tUp)>>,
    <<Link(tEnc)>>, <<Angled(tSpace)>>, <<Link(tEnc), Link(tRel)>> }

\* the documents of /w
RenamePoolB ==
  { <<Link(tDown)>>, <<Link(tDotDown), Link(tRel)>>, <<Link(tDownEnc)>> }

\* the content of the file that is renamed
RenamePoolMoved ==
  { <<>>, <<Link(tSibling)>>, <<Link(tUp), Link(tAbs)>> }

NotRenamed == [stage |-> "idle", oldPath |-> <<>>, newPath |-> <<>>, before |-> <<>>]

InitRename ==
  /\ \E old \in RenameOldPool, a \in RenamePoolA, b \in RenamePoolB, moved \in RenamePoolMoved :
       /\ fileText = [p \in RenamePaths |->
                        IF p = docA THEN OnDisk("ok", RenderDoc(a))
                        ELSE IF p = docB THEN OnDisk("ok", RenderDoc(b))
                        ELSE IF p = old THEN OnDisk("ok", RenderDoc(moved))
                        ELSE NoFile]
       /\ ren = [NotRenamed EXCEPT !.oldPath = old]
  /\ linkIndex = <<>>
  /\ diskIndex = NoDiskIndex

\* the file is renamed in the Explorer: it is at newPath with its content
MoveFile(newPath) ==
  /\ ren.stage = "idle"
  /\ fileText' = [fileText EXCEPT ![newPath] = fileText[ren.oldPath], ![ren.oldPath] = NoFile]
  /\ ren' = [ren EXCEPT !.stage = "moved", !.newPath = newPath, !.before = fileText]
  /\ UNCHANGED <<linkIndex, diskIndex, docs, broken, fs, probe, ws, search, fix, fixLog,
                 extractVars, pathVars, lastOp, timers, debounceTimeouts, inflight, hist, lateVars>>

\* the onDidRenameFiles handler for the file: updateReferences, then
\* registry.remove(oldUri) and registry.update(newUri, parseFile(newUri))
OnDidRenameFiles ==
  /\ ren.stage = "moved"
  /\ fileText' = updateReferences(fileText, ren.oldPath, ren.newPath)
  /\ linkIndex' = IndexSet(IndexDelete(linkIndex, ren.oldPath), ren.newPath,
                           ParseText(fileText', ren.newPath))
  /\ PersistToDisk(linkIndex')
  /\ ren' = [ren EXCEPT !.stage = "done"]
  /\ UNCHANGED <<docs, broken, fs, probe, ws, search, fix, fixLog,
                 extractVars, pathVars, lastOp, timers, debounceTimeouts, inflight, hist, lateVars>>

NextRename ==
  \/ \E newPath \in RenameTargets(ren.oldPath) : MoveFile(newPath)
  \/ OnDidRenameFiles

-----------------------------------------------------------------------------
(* Claims about the rename handler. *)

\* the links of a document, resolved from its directory
LinksAt(files, p, dir) == CatchReturnsEmpty(extractMarkdownLinks(files[p].text, dir)).links

\* the links of document d that resolved to the old path resolve to the new
\* path after the handler, the others as before
ReferencesFollow(d) ==
  LET before == LinksAt(ren.before, d, PathDirname(d))
      after == LinksAt(fileText, d, PathDirname(d))
  IN /\ Len(after) = Len(before)
     /\ \A k \in 1..Len(before) : before[k] = ren.oldPath => after[k] = ren.newPath

\* C18: after the handler has processed the rename, every link of every
\* document that resolved to the old path resolves to the new path,
\* however it was written
C18_ReferencesFollowRename ==
  ren.stage = "done" => \A d \in DocPaths : ReferencesFollow(d)

\* the same of the documents that hold the relative path of the old file
\* as it is computed from their directory, or no link to the old file
ReferencesFollowWhenWrittenAsComputed ==
  ren.stage = "done" =>
    \A d \in DocPaths :
      (\/ Includes(ren.before[d].text, PathRelative(PathDirname(d), ren.oldPath))
       \/ \A k \in 1..Len(LinksAt(ren.before, d, PathDirname(d))) :
            LinksAt(ren.before, d, PathDirname(d))[k] # ren.oldPath)
      => ReferencesFollow(d)

\* C19: after the handler has processed a move to another directory, the
\* links of the moved document resolve from its new place to what they
\* resolved to from its old place
C19_OutgoingLinksFollowMove ==
  (ren.stage = "done" /\ PathDirname(ren.newPath) # PathDirname(ren.oldPath)) =>
    LinksAt(fileText, ren.newPath, PathDirname(ren.newPath))
      = LinksAt(ren.before, ren.oldPath, PathDirname(ren.oldPath))

-----------------------------------------------------------------------------
(* Claims about failing searches of the candidate search. *)

\* the matches of search k of the plan are among the candidates returned
\* (the broken path itself apart)
Contributes(k) ==
  \A i \in 1..Len(search.find[k].files) :
    \/ search.find[k].files[i] = search.brokenLink
    \/ SeqIncludes(search.exactFolderMatches, search.find[k].files[i])
    \/ SeqIncludes(search.looseMatches, search.find[k].files[i])

\* C21: whichever searches of a call reject, the call returns, and every
\* search that does not reject contributes its matches
C21_OtherTiersContribute ==
  search.done =>
    \A k \in 1..Len(search.find) :
      (search.find[k].called /\ ~search.find[k].threw) => Contributes(k)

\* the same of every search but the loose search of an alternative
\* extension whose exact search rejected
ContributeUnlessExactOfPairThrew ==
  search.done =>
    \A k \in 1..Len(search.find) :
      (/\ search.find[k].called
       /\ ~search.find[k].threw
       /\ ~(k > 2 /\ k % 2 = 0 /\ search.find[k - 1].threw))
      => Contributes(k)

-----------------------------------------------------------------------------
(* scanWorkspace of extension.ts, step by step. *)

\* mutant of Scanned: a file that gives no links gets no entry
Scanned_SkipsEmpty(index, files, uri) ==
  IF parseFile(files, uri) = <<>> THEN index ELSE IndexSet(index, uri, parseFile(files, uri))

\* one round of the loop of scanWorkspace on the index:
\* registry.update(uri, await parseFile(uri))
Scanned(index, files, uri) == IndexSet(index, uri, parseFile(files, uri))

-----------------------------------------------------------------------------
(* Specification of the workspace scan: two Markdown documents and a       *)
(* notebook are drawn, readable or not, well formed or not, findFiles      *)
(* lists them in some order, and scanWorkspace runs.                       *)

docN == <<"/","w","/","n",".","i","p","y","n","b">>
ScanPaths == {docA, docB, docN}

Notebook(content) == [kind |-> "notebook", pieces |-> <<>>, notebook |-> content]

\* the contents drawn: with links, with a link whose escape is malformed,
\* empty, and a file that cannot be read
ScanPoolA ==
  { Markdown(<<Link(tRel), Link(tAbs)>>), Markdown(<<Link(tBadEnc), Link(tRel)>>),
    Markdown(<<>>), Missing }
ScanPoolB ==
  { Markdown(<<Link(tUp)>>), Markdown(<<Link(tRel), Link(tBadEnc)>>), Missing }
ScanPoolN ==
  { Notebook(Content("valid", Data("object", Cells("array",
      << Cell("markdown", Lines(<<lineRel, lineAbs>>)), Cell("code", Lines(<<lineRel>>)) >>)))),
    Notebook(Content("valid", Data("object", Cells("array",
      << Cell("markdown", Lines(<<lineRel>>)), Cell("markdown", Lines(<<lineBadEnc>>)) >>)))),
    Notebook(Content("malformed", Data("null", Cells("absent", <<>>)))),
    Missing }

NotScanned == [pc |-> "idle", files |-> <<>>, count |-> 0, visited |-> <<>>, returned |-> 0]

InitScan ==
  /\ docs \in { [d \in ScanPaths |-> IF d = docA THEN a ELSE IF d = docB THEN b ELSE n] :
                  a \in ScanPoolA, b \in ScanPoolB, n \in ScanPoolN }
  /\ linkIndex = <<>>
  /\ diskIndex = NoDiskIndex
  /\ broken = NotDetected
  /\ scan = NotScanned

\* const files = await findFiles('**/*.{md,ipynb}'); let count = 0
ScanStart(files) ==
  /\ scan.pc = "idle"
  /\ scan' = [scan EXCEPT !.pc = "loop", !.files = files]
  /\ UNCHANGED <<docs, linkIndex, diskIndex, broken, fs, probe, extractVars, repairVars,
                 pathVars, eventVars, nbu, pendingRepairs>>

\* one round of the loop: parseFile, registry.update, count++
ScanStep ==
  /\ scan.pc = "loop"
  /\ scan.count < Len(scan.files)
  /\ linkIndex' = Scanned(linkIndex, docs, scan.files[scan.count + 1])
  /\ PersistToDisk(linkIndex')
  /\ scan' = [scan EXCEPT !.count = @ + 1, !.visited = Append(@, scan.files[scan.count + 1])]
  /\ UNCHANGED <<docs, broken, fs, probe, extractVars, repairVars,
                 pathVars, eventVars, nbu, pendingRepairs>>

\* return count
ScanReturn ==
  /\ scan.pc = "loop"
  /\ scan.count = Len(scan.files)
  /\ scan' = [scan EXCEPT !.pc = "done", !.returned = scan.count]
  /\ UNCHANGED <<docs, linkIndex, diskIndex, broken, fs, probe, extractVars, repairVars,
                 pathVars, eventVars, nbu, pendingRepairs>>

NextScan ==
  \/ \E files \in Orders(ScanPaths) : ScanStart(files)
  \/ ScanStep
  \/ ScanReturn

-----------------------------------------------------------------------------
(* Claims about the workspace scan. *)

\* what reading and extracting a file gives: [threw, links]
Extracted(d) ==
  IF docs[d].kind = "missing" THEN [threw |-> TRUE, links |-> <<>>]
  ELSE IF docs[d].kind = "markdown"
    THEN extractMarkdownLinks(RenderDoc(docs[d].pieces), PathDirname(d))
  ELSE NotebookTry(docs[d].notebook, PathDirname(d))

\* C22: whichever files cannot be read or parsed, scanWorkspace ends, has
\* visited every file once, returns the number of files, and the index has
\* for every file the links extracted from it, none for a file that failed
C22_ScanCompletes ==
  /\ scan.pc = "loop" => scan.count <= Len(scan.files)
  /\ scan.pc = "done" =>
       /\ scan.returned = Cardinality(ScanPaths)
       /\ Len(scan.visited) = Cardinality(ScanPaths)
       /\ \A d \in ScanPaths :
            /\ Cardinality({ k \in 1..Len(scan.visited) : scan.visited[k] = d }) = 1
            /\ EntryOf(linkIndex, d) =
                 [present |-> TRUE,
                  links |-> IF Extracted(d).threw THEN <<>> ELSE Extracted(d).links]

\* a scan has ended on a workspace where one document cannot be read, one
\* has a link that cannot be parsed, and the notebook gave its links
C22_Witness ==
  /\ scan.pc = "done"
  /\ docs[docA].kind = "missing"
  /\ Extracted(docB).threw /\ docs[docB].kind = "markdown"
  /\ ~Extracted(docN).threw /\ EntryOf(linkIndex, docN).links # <<>>
  /\ scan.visited[1] = docA

-----------------------------------------------------------------------------
(* Claims about the index file of the Registry. *)

\* some update or remove has been made
Operated == \E d \in DocPaths : lastOp[d].op # "none"

\* C23: after any sequence of update and remove the index file holds the
\* index of the Registry, so that a Registry constructed over it starts
\* with that index
C23_PersistedIsInMemory ==
  Operated => loadFromDisk(diskIndex, TRUE) = linkIndex

\* whenever the index file changes, it holds the index of the Registry
WrittenIsInMemory ==
  [][diskIndex' # diskIndex => loadFromDisk(diskIndex', TRUE) = linkIndex']_vars

-----------------------------------------------------------------------------
(* Claims about the counters of fixBrokenLinks. *)

\* C30: at the end of a run of fixBrokenLinks, totalFixed + totalSkipped is
\* the number of broken link records the run started from, those whose
\* applyLinkRepair raised an error included
C30_FixedPlusSkippedIsTotal ==
  fix.pc = "done" =>
    fix.totalFixed + fix.totalSkipped = Len(findBrokenLinks(fs, linkIndex))

\* the same, for the runs in which no applyLinkRepair raised an error
FixedPlusSkippedIsTotalWithoutError ==
  (fix.pc = "done" /\ \A d \in DocPaths : fileText[d].status = "ok") =>
    fix.totalFixed + fix.totalSkipped = Len(findBrokenLinks(fs, linkIndex))

-----------------------------------------------------------------------------
(* Claims about the order of a run of fixBrokenLinks. *)

\* the groups of the run: brokenLinksByPath of the records found
GroupsOf(brokenLinks) == GroupByPath(brokenLinks, 1, <<>>)

\* the records are grouped by broken path: no two groups have the same
\* path, and each record is in the group of its path, as many times as it
\* was found
Grouped(brokenLinks, groups) ==
  /\ \A i, j \in 1..Len(groups) : groups[i].brokenPath = groups[j].brokenPath => i = j
  /\ \A r \in 1..Len(brokenLinks) :
       \E g \in 1..Len(groups) :
         /\ groups[g].brokenPath = brokenLinks[r].brokenLink
         /\ Cardinality({ k \in 1..Len(groups[g].associatedLinks) :
                            groups[g].associatedLinks[k] = brokenLinks[r] })
              = Cardinality({ q \in 1..Len(brokenLinks) : brokenLinks[q] = brokenLinks[r] })
  /\ \A g \in 1..Len(groups) :
       \A k \in 1..Len(groups[g].associatedLinks) :
         groups[g].associatedLinks[k].brokenLink = groups[g].brokenPath

\* the run has finished the first Len(fixLog) groups, in order, each with a
\* repair attempted on every record or on none, and has not begun the others
OneAtATime(groups) ==
  /\ Len(fixLog) + Len(fix.queue) = Len(groups)
  /\ fix.queue = SubSeq(groups, Len(fixLog) + 1, Len(groups))
  /\ \A k \in 1..Len(fixLog) :
       /\ fixLog[k].brokenPath = groups[k].brokenPath
       /\ fixLog[k].calls \in {0, Len(groups[k].associatedLinks)}
       /\ Len(fixLog[k].wrote) <= fixLog[k].calls
  /\ fix.searches = IF fix.pc = "repair" THEN 1 ELSE 0

\* the searches of a finished broken path: one, and one more for the report
\* when the first found no candidate
SearchesOf(e) ==
  IF Len(e.exactFolderMatches) + Len(e.looseMatches) = 0 THEN 2 ELSE 1

\* C25, with the count of searches as the code makes them: in a run of
\* fixBrokenLinks the records are grouped by broken path, the broken paths
\* are processed one at a time in the order of the groups, every repair for
\* one path made before the search for the next, and the candidate search
\* runs once for a path that has candidates, twice for one that has none
C25_OnePathAtATime ==
  fix.pc # "idle" =>
    /\ Grouped(findBrokenLinks(fs, linkIndex), GroupsOf(findBrokenLinks(fs, linkIndex)))
    /\ fix.pc # "done" \/ fix.summary =>
         OneAtATime(GroupsOf(findBrokenLinks(fs, linkIndex)))
    /\ \A k \in 1..Len(fixLog) : fixLog[k].searches = SearchesOf(fixLog[k])

\* C25 as stated: the candidate search runs once per distinct broken path
C25_OneSearchPerPath ==
  \A k \in 1..Len(fixLog) : fixLog[k].searches = 1

\* a run has ended that had two broken paths, one of them with two records
\* that were both repaired
C25_Witness ==
  /\ fix.pc = "done"
  /\ Len(fixLog) = 2
  /\ \E k \in 1..2 : fixLog[k].calls = 2 /\ Len(fixLog[k].wrote) = 2

-----------------------------------------------------------------------------
(* Claims about the cross-format search. *)

extMd == <<".", "m", "d">>
extIpynb == <<".", "i", "p", "y", "n", "b">>
extMarkdown == <<".", "m", "a", "r", "k", "d", "o", "w", "n">>

\* the file names the cross-format searches of a search are made for, in
\* the order of the searches
AltNamesSearched(plan) ==
  LET Made(k) == plan[k].made
  IN [k \in 1..Len(SelectSeq([j \in 1..MaxAlternatives |-> 2 * j + 2], Made)) |->
        plan[SelectSeq([j \in 1..MaxAlternatives |-> 2 * j + 2], Made)[k]].suffix]

\* the cross-format searches are those of the alternates of the extension:
\* .ipynb for .md, .md and .markdown for .ipynb, none for another one
AlternatesAsDocumented(brokenPath, plan) ==
  AltNamesSearched(plan) =
    IF brokenPath.ext = extMd THEN << brokenPath.name \o extIpynb >>
    ELSE IF brokenPath.ext = extIpynb
      THEN << brokenPath.name \o extMd, brokenPath.name \o extMarkdown >>
    ELSE <<>>

\* the exact search of each alternate is made when the path has a folder
ExactOfAlternates(brokenPath, plan) ==
  \A j \in 1..MaxAlternatives :
    plan[2 * j + 1].made <=> (plan[2 * j + 2].made /\ Len(brokenPath.dir) > 0)

NoDuplicate(q) == \A i, j \in 1..Len(q) : q[i] = q[j] => i = j

\* the result of cross-format search k is merged into the tiers
Merged(k) == (search.find[k].called /\ ~search.find[k].threw) => Contributes(k)

\* C26: the candidate search of a .md path is repeated with .ipynb, that of
\* a .ipynb path with .md and .markdown, that of no other path; each
\* repetition applies the exact search and the loose search, and no path is
\* twice in a tier of the merged result
C26_CrossFormatSearch ==
  search.done =>
    /\ AlternatesAsDocumented(PathParse(search.brokenLink), SearchPlan(search.brokenLink))
    /\ ExactOfAlternates(PathParse(search.brokenLink), SearchPlan(search.brokenLink))
    /\ \A k \in 3..Len(search.find) : Merged(k)
    /\ NoDuplicate(search.exactFolderMatches)
    /\ NoDuplicate(search.looseMatches)

\* the same without the loose search of a repetition whose exact search
\* rejected
CrossFormatSearchButAfterRejection ==
  search.done =>
    /\ AlternatesAsDocumented(PathParse(search.brokenLink), SearchPlan(search.brokenLink))
    /\ ExactOfAlternates(PathParse(search.brokenLink), SearchPlan(search.brokenLink))
    /\ \A k \in 3..Len(search.find) :
         (k % 2 = 0 /\ search.find[k - 1].threw) \/ Merged(k)
    /\ NoDuplicate(search.exactFolderMatches)
    /\ NoDuplicate(search.looseMatches)

-----------------------------------------------------------------------------
(* Claims about the text updateMarkdownLinks leaves alone. *)

\* the text of a link before its target
BeforeTarget(p) ==
  (IF p.kind = "image" THEN <<"!">> ELSE <<>>) \o <<"[">> \o p.label \o <<"]", "(">>

\* line is the link p with some target: what is before the target and the
\* closing parenthesis are as written
OnlyTargetChanged(p, line) ==
  /\ Len(line) > Len(BeforeTarget(p))
  /\ SubSeq(line, 1, Len(BeforeTarget(p))) = BeforeTarget(p)
  /\ line[Len(line)] = ")"

\* C29: updateMarkdownLinks changes targets only; the label or alt text of
\* every link and the text outside its target are in the returned text as
\* in the input, also when the label is the text of the target
C29_OnlyTargetsChange ==
  UpdateReturned =>
    /\ Len(SplitLines(upd.text)) = Len(upd.pieces)
    /\ \A k \in 1..Len(upd.pieces) : OnlyTargetChanged(upd.pieces[k], SplitLines(upd.text)[k])

\* the same for the links and images whose label does not hold the text of
\* their target
OnlyTargetsChangeUnderOtherLabel ==
  UpdateReturned =>
    /\ Len(SplitLines(upd.text)) = Len(upd.pieces)
    /\ \A k \in 1..Len(upd.pieces) :
         ~Includes(upd.pieces[k].label, upd.pieces[k].target) =>
           OnlyTargetChanged(upd.pieces[k], SplitLines(upd.text)[k])

-----------------------------------------------------------------------------
(* Claims about what the substitution of applyLinkRepair leaves alone. *)

\* the broken paths for which the run wrote document d
RepairedIn(d) ==
  { fixLog[j].brokenPath : j \in { i \in 1..Len(fixLog) : SeqIncludes(fixLog[i].wrote, d) } }

\* the links of document d to other paths than those repaired in it resolve
\* after the run as they did when the run began
OtherLinksKept(d) ==
  LET before == EntryOf(linkIndex, d).links
      after == LinksAt(fileText, d, PathDirname(d))
  IN /\ Len(after) = Len(before)
     /\ \A k \in 1..Len(before) : before[k] \notin RepairedIn(d) => after[k] = before[k]

\* C28: the substitution of applyLinkRepair changes only the links that
\* resolve to the broken path; every other link of the rewritten document
\* resolves as before, also one whose target holds the relative form of
\* the broken path as a part
C28_OnlyBrokenLinksChange ==
  \A d \in DocPaths : OtherLinksKept(d)

\* the same of the documents none of whose other links holds the file name
\* of a repaired path in its target
OtherLinksKeptWithoutSubstring ==
  \A d \in DocPaths :
    (\A k \in 1..Len(docs[d].pieces) :
       \/ normalizeLink(docs[d].pieces[k].target, PathDirname(d)).v \in RepairedIn(d)
       \/ \A p \in RepairedIn(d) : ~Includes(docs[d].pieces[k].target, PathBasename(p)))
    => OtherLinksKept(d)

-----------------------------------------------------------------------------
(* updateNotebookLinks of parser.ts. *)

\* cell.source.map(line => updateMarkdownLinks(line, oldDir, newDir)) from
\* line i on: [threw, lines], threw when updateMarkdownLinks raised
MappedLine(acc, r) ==
  IF r.threw THEN [threw |-> TRUE, lines |-> <<>>]
  ELSE [threw |-> FALSE, lines |-> Append(acc.lines, r.text)]

RECURSIVE MapLines(_, _, _, _, _)
MapLines(lines, i, oldDir, newDir, acc) ==
  IF i > Len(lines) \/ acc.threw THEN acc
  ELSE MapLines(lines, i + 1, oldDir, newDir,
                MappedLine(acc, updateMarkdownLinks(lines[i], oldDir, newDir)))

\* the cell with the source the map gave
WithSource(cell, mapped) ==
  IF mapped.threw THEN [threw |-> TRUE, cell |-> cell]
  ELSE [threw |-> FALSE, cell |-> [cell EXCEPT !.source = Lines(mapped.lines)]]

\* the body of the loop over the cells: [threw, cell]. cell.cell_type of a
\* null cell throws; a source that is a string of text has no map; a cell
\* without source, or of another type, is left
UpdateCell(cell, oldDir, newDir) ==
  IF cell.kind # "object" THEN [threw |-> TRUE, cell |-> cell]
  ELSE IF cell.cell_type # "markdown" \/ cell.source.kind = "absent"
    THEN [threw |-> FALSE, cell |-> cell]
  ELSE IF cell.source.kind # "array" THEN [threw |-> TRUE, cell |-> cell]
  ELSE WithSource(cell, MapLines(cell.source.lines, 1, oldDir, newDir,
                                 [threw |-> FALSE, lines |-> <<>>]))

\* the loop from cell i on: [threw, items]
CellDone(acc, r) == [threw |-> r.threw, items |-> Append(acc.items, r.cell)]

RECURSIVE UpdateCells(_, _, _, _, _)
UpdateCells(items, i, oldDir, newDir, acc) ==
  IF i > Len(items) \/ acc.threw THEN acc
  ELSE UpdateCells(items, i + 1, oldDir, newDir,
                   CellDone(acc, UpdateCell(items[i], oldDir, newDir)))

\* the notebook with the cells the loop gave
WithCells(content, r) ==
  [threw |-> r.threw, content |-> [content EXCEPT !.data.cells.items = r.items]]

\* the try block: JSON.parse, the loop over data.cells || [], and
\* JSON.stringify(data, null, 1); [threw, content]
UpdateNotebookTry(content, oldDir, newDir) ==
  IF content.json # "valid" \/ content.data.kind = "null"
    THEN [threw |-> TRUE, content |-> content]
  ELSE IF content.data.kind # "object" \/ content.data.cells.kind = "absent"
    THEN [threw |-> FALSE, content |-> content]
  ELSE IF content.data.cells.kind # "array" THEN [threw |-> TRUE, content |-> content]
  ELSE WithCells(content, UpdateCells(content.data.cells.items, 1, oldDir, newDir,
                                      [threw |-> FALSE, items |-> <<>>]))

\* catch (error) { return content; } around a block that produced r
CatchReturnsContent(content, r) ==
  IF r.threw THEN [same |-> TRUE, content |-> content]
  ELSE [same |-> FALSE, content |-> r.content]

\* updateNotebookLinks(content, oldDir, newDir): [same, content]; same when
\* the string handed in is returned, otherwise content is what the string
\* written by JSON.stringify holds
updateNotebookLinks(content, oldDir, newDir) ==
  IF oldDir = newDir THEN [same |-> TRUE, content |-> content]
  ELSE CatchReturnsContent(content, UpdateNotebookTry(content, oldDir, newDir))

-----------------------------------------------------------------------------
(* Specification of updateNotebookLinks: a notebook and two directories    *)
(* are drawn and the function is applied.                                  *)

NotUpdatedNotebook ==
  [done |-> FALSE, content |-> Content("malformed", Data("null", Cells("absent", <<>>))),
   oldDir |-> <<>>, newDir |-> <<>>, same |-> FALSE,
   result |-> Content("malformed", Data("null", Cells("absent", <<>>)))]

InitNotebookUpdate == nbu = NotUpdatedNotebook

UpdatedNotebook(content, oldDir, newDir, r) ==
  [done |-> TRUE, content |-> content, oldDir |-> oldDir, newDir |-> newDir,
   same |-> r.same, result |-> r.content]

\* a call updateNotebookLinks(content, oldDir, newDir)
RunUpdateNotebookLinks(content, oldDir, newDir) ==
  /\ ~nbu.done
  /\ nbu' = UpdatedNotebook(content, oldDir, newDir, updateNotebookLinks(content, oldDir, newDir))
  /\ UNCHANGED <<extractVars, probeVars, detectVars, repairVars, pathVars, eventVars,
                 scan, pendingRepairs>>

NextNotebookUpdate ==
  \E content \in NotebookPool, oldDir \in MoveDirs, newDir \in MoveDirs :
    RunUpdateNotebookLinks(content, oldDir, newDir)

-----------------------------------------------------------------------------
(* Claims about updateNotebookLinks. *)

\* the content parses: JSON.parse returns for it
ParsesAsNotebook(content) == content.json = "valid"

\* cell after is cell before with every source line replaced by what
\* updateMarkdownLinks returns for it when it is a markdown cell, and is the
\* same cell otherwise
CellUpdated(before, after, oldDir, newDir) ==
  IF before.kind = "object" /\ before.cell_type = "markdown" /\ before.source.kind = "array"
    THEN /\ after.cell_type = "markdown"
         /\ after.source.kind = "array"
         /\ Len(after.source.lines) = Len(before.source.lines)
         /\ \A j \in 1..Len(before.source.lines) :
              /\ ~updateMarkdownLinks(before.source.lines[j], oldDir, newDir).threw
              /\ after.source.lines[j]
                   = updateMarkdownLinks(before.source.lines[j], oldDir, newDir).text
    ELSE after = before

StructureKept(before, after, oldDir, newDir) ==
  /\ after.json = "valid"
  /\ after.data.kind = before.data.kind
  /\ after.data.cells.kind = before.data.cells.kind
  /\ Len(after.data.cells.items) = Len(before.data.cells.items)
  /\ \A i \in 1..Len(before.data.cells.items) :
       CellUpdated(before.data.cells.items[i], after.data.cells.items[i], oldDir, newDir)

\* C27: for a content that parses, every markdown cell of the
\* result has as many source lines as in the input, line i being
\* updateMarkdownLinks(line i, oldDir, newDir), and the other cells are as
\* they were; a content that does not parse is returned as it is
C27_NotebookStructureKept ==
  nbu.done =>
    IF ParsesAsNotebook(nbu.content)
      THEN StructureKept(nbu.content, nbu.result, nbu.oldDir, nbu.newDir)
      ELSE nbu.same /\ nbu.result = nbu.content

\* no cell of the notebook makes the loop raise: every cell is an object,
\* every markdown cell has a list of lines or no source, and
\* updateMarkdownLinks returns for each line
NoCellRaises(content, oldDir, newDir) ==
  \A i \in 1..Len(content.data.cells.items) :
    LET cell == content.data.cells.items[i]
    IN /\ cell.kind = "object"
       /\ cell.cell_type = "markdown" =>
            /\ cell.source.kind \in {"array", "absent"}
            /\ \A j \in 1..Len(cell.source.lines) :
                 ~updateMarkdownLinks(cell.source.lines[j], oldDir, newDir).threw

\* the same for the notebooks none of whose cells makes the loop raise
NotebookStructureKeptUnlessRaised ==
  nbu.done =>
    IF ParsesAsNotebook(nbu.content)
      THEN NoCellRaises(nbu.content, nbu.oldDir, nbu.newDir) =>
             StructureKept(nbu.content, nbu.result, nbu.oldDir, nbu.newDir)
      ELSE nbu.same /\ nbu.result = nbu.content

-----------------------------------------------------------------------------
(* Specification of the refresh after a repair: a run of fixBrokenLinks    *)
(* applies its repairs one after the other while time passes; the watcher  *)
(* sees each write, and the reads and the calls of handleFileUpdate in     *)
(* flight proceed in any order.  The timeouts run when they are due, a     *)
(* read that was started ends, and a call whose read ended resumes.        *)

wsNotebook == <<"/","w","/","e","/","f",".","i","p","y","n","b">>

\* a call applyLinkRepair(brokenLinkInfo, replacementPath) of the run
Repair(filePath, brokenLink, replacementPath) ==
  [info |-> [filePath |-> filePath, brokenLink |-> brokenLink],
   replacementPath |-> replacementPath]

\* the calls of the runs drawn, in the order of the loop: the records of
\* /x/f.md in both documents, then the record of /w/d/f.md
RefreshRuns ==
  { << Repair(docA, pathAbsF, wsNotebook) >>,
    << Repair(docA, pathAbsF, wsNotebook), Repair(docB, pathAbsF, wsNotebook) >>,
    << Repair(docA, pathAbsF, wsNotebook), Repair(docB, pathAbsF, wsNotebook),
       Repair(docA, pathDocsF, wsLoose) >>,
    << Repair(docB, pathAbsF, wsNotebook), Repair(docA, pathDocsF, wsLoose) >> }

\* the index scanWorkspace makes of the two documents
ScannedTexts(files) ==
  IndexSet(IndexSet(<<>>, docA, ParseText(files, docA)), docB, ParseText(files, docB))

InitRefresh ==
  /\ \E status \in {"ok", "readonly"} :
       fileText = [d \in DocPaths |->
                     IF d = docA THEN OnDisk("ok", RenderDoc(<<Link(tAbs), Link(tRel)>>))
                     ELSE OnDisk(status, RenderDoc(<<Link(tAbs)>>))]
  /\ linkIndex = ScannedTexts(fileText)
  /\ diskIndex = [exists |-> TRUE, index |-> linkIndex]
  /\ pendingRepairs \in RefreshRuns
  /\ fixLog = <<>>
  /\ timers = <<>>
  /\ debounceTimeouts = [d \in DocPaths |-> 0]
  /\ inflight = EmptyBag
  /\ hist = [d \in DocPaths |-> NoHistory]

\* the watcher reports the change of a written document: onDidChange
\* clears the timeout of the path and sets a new one
WatcherSees(d, set) ==
  /\ timers' = set.timers
  /\ debounceTimeouts' = set.map
  /\ hist' = [hist EXCEPT ![d] = Changed(@)]

\* what a call of applyLinkRepair that returned r leaves
Repaired(d, r) ==
  /\ fileText' = r.files
  /\ fixLog' = Append(fixLog, [filePath |-> d, wrote |-> r.wrote])
  /\ IF r.wrote
       THEN WatcherSees(d, Debounced(ClearPending(timers, debounceTimeouts, d),
                                     debounceTimeouts, d))
       ELSE UNCHANGED <<timers, debounceTimeouts, hist>>

\* the next call applyLinkRepair of the run
RepairNext ==
  /\ pendingRepairs # <<>>
  /\ Repaired(Head(pendingRepairs).info.filePath,
              applyLinkRepair(fileText, Head(pendingRepairs).info,
                              Head(pendingRepairs).replacementPath))
  /\ pendingRepairs' = Tail(pendingRepairs)
  /\ UNCHANGED <<linkIndex, diskIndex, docs, broken, inflight, fs, probe, ws, search, fix,
                 extractVars, pathVars, lastOp, ren, scan, nbu>>

\* vscode.workspace.fs.readFile of a call in flight reads the text
ReadText(call) ==
  /\ call.stage = "reading"
  /\ inflight' = (inflight (-) SetToBag({call}))
                    (+) SetToBag({[uri |-> call.uri, stage |-> "read",
                                   file |-> fileText[call.uri]]})
  /\ UNCHANGED <<docs, linkIndex, diskIndex, timers, debounceTimeouts, hist, broken, fs,
                 probe, extractVars, repairVars, pathVars, lastOp, ren, lateVars>>

\* the call resumes: parseFile returns the links of what was read, and
\* registry.update(uri, links)
ResumeText(call) ==
  /\ call.stage = "read"
  /\ linkIndex' = IndexSet(linkIndex, call.uri,
                           ParseText([fileText EXCEPT ![call.uri] = call.file], call.uri))
  /\ diskIndex' = [exists |-> TRUE, index |-> linkIndex']
  /\ inflight' = inflight (-) SetToBag({call})
  /\ UNCHANGED <<docs, timers, debounceTimeouts, hist, broken, fs, probe,
                 extractVars, repairVars, pathVars, lastOp, ren, lateVars>>

TimePasses == \E ms \in Delays : Elapse(ms)
SomeRead == \E call \in BagToSet(inflight) : ReadText(call)
SomeResume == \E call \in BagToSet(inflight) : ResumeText(call)

NextRefresh ==
  \/ RepairNext
  \/ TimePasses
  \/ SomeRead
  \/ SomeResume

-----------------------------------------------------------------------------
(* Claims about the refresh after a repair. *)

\* the writes the run has made of document d
WritesOf(d) == Cardinality({ k \in 1..Len(fixLog) : fixLog[k].filePath = d /\ fixLog[k].wrote })

\* the entry of document d is the links of its text
Refreshed(d) == EntryOf(linkIndex, d) = [present |-> TRUE, links |-> ParseText(fileText, d)]

\* C24: after a repair has written a document, the document is extracted
\* again and from some time on its entry of the index is the links of the
\* text written
C24_IndexRefreshedAfterRepair ==
  <>[](\A d \in DocPaths : WritesOf(d) > 0 => Refreshed(d))

\* the same of the documents the run writes once
RefreshedWhenWrittenOnce ==
  <>[](\A d \in DocPaths : (pendingRepairs = <<>> /\ WritesOf(d) = 1) => Refreshed(d))

\* nothing is left to do: no repair, no timeout, no call in flight
Quiet == pendingRepairs = <<>> /\ timers = <<>> /\ inflight = EmptyBag

\* once nothing is left to do, the entry of a document written once is the
\* links of its text
QuietRefreshedWhenWrittenOnce ==
  Quiet => \A d \in DocPaths : WritesOf(d) = 1 => Refreshed(d)

-----------------------------------------------------------------------------
(* The specifications. *)

NextExtract == RunExtractMarkdown \/ RunExtractNotebook

\* the variables of the watcher and of the rename handler at rest
WatchIdle ==
  /\ timers = <<>>
  /\ debounceTimeouts = [d \in DocPaths |-> 0]
  /\ inflight = EmptyBag
  /\ hist = [d \in DocPaths |-> NoHistory]

RenameIdle == ren = NotRenamed

LateIdle == scan = NotScanned /\ nbu = NotUpdatedNotebook /\ pendingRepairs = <<>>

EventIdleButLate == lastOp = NoOps /\ WatchIdle /\ RenameIdle

EventIdle == EventIdleButLate /\ LateIdle

\* each specification starts from the drawn inputs of its operations, the
\* variables of the other operations at rest
InitExtractOnly == InitExtract /\ ProbeIdle /\ FsIdle /\ DetectIdle /\ RepairIdle /\ PathIdle /\ EventIdle
InitProbeOnly == InitProbe /\ ExtractIdle /\ DetectIdle /\ RepairIdle /\ PathIdle /\ EventIdle
InitDetectOnly == InitDetect /\ ExtractIdle /\ ProbeIdle /\ RepairIdle /\ PathIdle /\ EventIdle
InitCandidatesOnly ==
  InitCandidates /\ ExtractIdle /\ ProbeIdle /\ FsIdle /\ DetectIdle /\ FixStill /\ PathIdle
  /\ EventIdle
InitFixOnly == InitFix /\ ExtractIdle /\ ProbeIdle /\ PathIdle /\ EventIdle

InitRelativeOnly ==
  InitRelative /\ ExtractIdle /\ ProbeIdle /\ FsIdle /\ DetectIdle /\ RepairIdle /\ EventIdle

InitUpdateOnly ==
  InitUpdate /\ ExtractIdle /\ ProbeIdle /\ FsIdle /\ DetectIdle /\ RepairIdle /\ EventIdle

InitRegistryOnly ==
  InitRegistry /\ ExtractIdle /\ ProbeIdle /\ FsIdle /\ RepairIdle /\ PathIdle /\ WatchIdle
  /\ RenameIdle /\ LateIdle

InitWatchOnly ==
  InitWatch /\ ExtractIdle /\ ProbeIdle /\ FsIdle /\ RepairIdle /\ PathIdle /\ lastOp = NoOps
  /\ RenameIdle /\ LateIdle

InitRenameOnly ==
  InitRename /\ ExtractIdle /\ ProbeIdle /\ FsIdle /\ PathIdle /\ lastOp = NoOps /\ WatchIdle
  /\ docs = [d \in DocPaths |-> Missing] /\ broken = NotDetected
  /\ ws = {} /\ search = NotSearched /\ fix = FixIdle /\ fixLog = <<>> /\ LateIdle

InitScanOnly ==
  InitScan /\ ExtractIdle /\ ProbeIdle /\ FsIdle /\ RepairIdle /\ PathIdle /\ EventIdleButLate
  /\ nbu = NotUpdatedNotebook /\ pendingRepairs = <<>>

InitNotebookUpdateOnly ==
  InitNotebookUpdate /\ ExtractIdle /\ ProbeIdle /\ FsIdle /\ DetectIdle /\ RepairIdle /\ PathIdle
  /\ EventIdleButLate /\ scan = NotScanned /\ pendingRepairs = <<>>

InitRefreshOnly ==
  InitRefresh /\ ExtractIdle /\ ProbeIdle /\ FsIdle /\ PathIdle /\ lastOp = NoOps /\ RenameIdle
  /\ docs = [d \in DocPaths |-> Missing] /\ broken = NotDetected
  /\ ws = {} /\ search = NotSearched /\ fix = FixIdle
  /\ scan = NotScanned /\ nbu = NotUpdatedNotebook

SpecExtract == InitExtractOnly /\ [][NextExtract]_vars
SpecProbe == InitProbeOnly /\ [][NextProbe]_vars
SpecDetect == InitDetectOnly /\ [][NextDetect]_vars
SpecCandidates == InitCandidatesOnly /\ [][NextCandidates]_vars
SpecFix == InitFixOnly /\ [][NextFix]_vars
SpecRelative == InitRelativeOnly /\ [][NextRelative]_vars
SpecUpdate == InitUpdateOnly /\ [][NextUpdate]_vars
SpecRegistry == InitRegistryOnly /\ [][NextRegistry]_vars
SpecWatch == InitWatchOnly /\ [][NextWatch]_vars
SpecRename == InitRenameOnly /\ [][NextRename]_vars
SpecScan == InitScanOnly /\ [][NextScan]_vars
SpecNotebookUpdate == InitNotebookUpdateOnly /\ [][NextNotebookUpdate]_vars

\* the step RepairNext makes of the run, and the step SomeResume makes of
\* the calls in flight: no other action of NextRefresh takes a repair from
\* the run or a call whose read has ended from the calls in flight
RunGoesOn == pendingRepairs # <<>> /\ pendingRepairs' = Tail(pendingRepairs)
CallEnds ==
  \E call \in BagToSet(inflight) :
    call.stage = "read" /\ inflight' = inflight (-) SetToBag({call})

\* the run goes on to its next repair (the loop of fixBrokenLinks awaits
\* each call and continues), time passes, a read that was started ends,
\* and a call whose read has ended resumes
RefreshFairness ==
  /\ WF_pendingRepairs(RunGoesOn)
  /\ WF_vars(TimePasses)
  /\ WF_vars(SomeRead)
  /\ WF_inflight(CallEnds)

SpecRefresh == InitRefreshOnly /\ [][NextRefresh]_vars /\ RefreshFairness

=============================================================================
